---- MODULE Spec2Model ----
(***************************************************************************)
(* Weather trading bot (Amack34/Drewbots): the orchestrator (bot.py), the  *)
(* paper mirror (paper_trade.py) and the exchange they talk to.            *)
(*                                                                         *)
(* Money is in cents, prices in cents per contract (1..99).  Python floats *)
(* that hold ratios of integers are compared by cross-multiplication; the  *)
(* int() truncations are computed on the exact rational.                   *)
(***************************************************************************)
EXTENDS Integers, Sequences, FiniteSets, TLC

VARIABLES
    paper_mode,     \* WeatherBot.paper_mode
    config,         \* CONFIG's kill switch, and whether WeatherBot.config is assigned
    triggered,      \* WeatherBot._80pct_triggered
    paper_trades,   \* table paper_trades, in id order (id = index)
    paper_balance,  \* table paper_balance, append-only ledger, in id order
    cash,           \* exchange: GET /portfolio/balance
    positions,      \* exchange: GET /portfolio/positions, per ticker
    orders,         \* exchange: every POST /portfolio/orders received
    journal,        \* table trade_journal
    now_utc,        \* wall clock, whole hours since 00:00 UTC of day 0
    seq,            \* number of calls made so far; tells datetime.now() stamps apart
    last,           \* the last call: its arguments, what it read, its result
    cycle,          \* run_cycle in progress: its position and its locals
    profit_rule_triggered,  \* PriceMonitor.profit_rule_triggered
    extremes,       \* table metar_daily_extremes of one station, per ET date
    temp_state,     \* temp_state.json: the entry of one city
    updaters,       \* processes inside update_from_metar: position and locals
    writers,        \* processes inside paper_trade: position and locals
    monitor         \* the process running PriceMonitor.run: position, flag, PID file

botVars == <<paper_mode, config, triggered>>
paperVars == <<paper_trades, paper_balance>>
exchVars == <<cash, positions, orders>>
weatherVars == <<extremes, temp_state, updaters>>
procVars == <<writers, monitor>>
vars == <<botVars, paperVars, exchVars, journal, now_utc, seq, last, cycle,
         profit_rule_triggered, weatherVars, procVars>>

----------------------------------------------------------------------------
(* Bounds of the model *)

MaxCalls == 3       \* calls of the paper mirror in one run
MaxHour == 36       \* the clock stops here
MaxSweeps == 2      \* calls of the close paths in one run
MaxExec == 2        \* calls of execute_signal in one run

(* Program constants *)

PAPER_BANKROLL_START == 10000
max_position_pct == 5
max_trades_per_day == 22

Tickers == {"T1", "T2"}
Sides == {"yes", "no"}
None == "None"

----------------------------------------------------------------------------
(* Arithmetic helpers *)

Abs(x) == IF x < 0 THEN -x ELSE x
Min(a, b) == IF a <= b THEN a ELSE b
Max(a, b) == IF a >= b THEN a ELSE b
\* Python int(a / b) for b > 0: truncation toward zero of the exact quotient
IntDiv(a, b) == IF a >= 0 THEN a \div b ELSE -((-a) \div b)
\* Python -(-a // b): ceiling division
CeilDiv(a, b) == -((-a) \div b)

RECURSIVE SumSeq(_)
SumSeq(s) == IF s = <<>> THEN 0 ELSE Head(s) + SumSeq(Tail(s))

\* (now - 5h).strftime("%Y-%m-%d"), and sqlite date(created_at, '-5 hours')
DateET(h) == (h - 5) \div 24
\* date.today() / sqlite date(created_at)
DateUTC(h) == h \div 24

Stamp == [h |-> now_utc, n |-> seq]
\* settled_at of a row not settled yet (NULL)
NoStamp == [h |-> -1, n |-> -1]

----------------------------------------------------------------------------
(* Signals.  Temperatures are whole degrees F, edge_pct a whole percentage. *)

MkSignal(ticker, mtype, side, price, yes_price, edge, cur, fc, tomorrow, margin, source) ==
    [market_ticker |-> ticker, event_ticker |-> "EV", market_type |-> mtype,
     action |-> "buy", side |-> side, suggested_price |-> price,
     market_yes_price |-> yes_price, edge_pct |-> edge,
     current_temp_f |-> cur, forecast_temp_f |-> fc, surrounding_avg_f |-> cur,
     is_tomorrow |-> tomorrow, margin |-> margin, signal_source |-> source]

----------------------------------------------------------------------------
(* Paper mirror: paper_trade.py *)

get_paper_balance ==
    IF Len(paper_balance) = 0 THEN PAPER_BANKROLL_START
    ELSE paper_balance[Len(paper_balance)].balance_cents

RowIds == 1..Len(paper_trades)

get_todays_trade_count ==
    Cardinality({i \in RowIds : DateET(paper_trades[i].created_at.h) = DateET(now_utc)})

is_duplicate_trade(market_ticker, side) ==
    \E i \in RowIds :
        /\ paper_trades[i].market_ticker = market_ticker
        /\ paper_trades[i].side = side
        /\ paper_trades[i].settled = 0
        /\ DateET(paper_trades[i].created_at.h) = DateET(now_utc)

\* paper_trade without its checks of the cost.
PaperTradeGate_NoLimits(signal, contracts) ==
    IF is_duplicate_trade(signal.market_ticker, signal.side) THEN "paper_dedup"
    ELSE IF get_todays_trade_count >= max_trades_per_day THEN "paper_max_trades"
    ELSE "ok"

\* The check of paper_trade that returns None, or "ok" when the trade is
\* recorded.
PaperTradeGate(signal, contracts) ==
    LET balance == get_paper_balance
        cost == signal.suggested_price * contracts
        max_position == IntDiv(balance * max_position_pct, 100)
    IN  IF is_duplicate_trade(signal.market_ticker, signal.side) THEN "paper_dedup"
        ELSE IF cost > max_position THEN "paper_max_position"
        ELSE IF get_todays_trade_count >= max_trades_per_day THEN "paper_max_trades"
        ELSE IF cost > balance THEN "paper_balance"
        ELSE "ok"

PaperRow(signal, contracts) ==
    [market_ticker |-> signal.market_ticker, side |-> signal.side,
     price_cents |-> signal.suggested_price, contracts |-> contracts,
     settled |-> 0, settlement_result |-> None, pnl_cents |-> 0,
     signal_source |-> signal.signal_source,
     created_at |-> Stamp, settled_at |-> NoStamp]

\* The two tables after paper_trade(signal, contracts).
PaperTradeTables(signal, contracts) ==
    IF PaperTradeGate(signal, contracts) = "ok"
    THEN [trades |-> Append(paper_trades, PaperRow(signal, contracts)),
          balance |-> Append(paper_balance,
                        [balance_cents |-> get_paper_balance
                                            - signal.suggested_price * contracts,
                         updated_at |-> Stamp])]
    ELSE [trades |-> paper_trades, balance |-> paper_balance]

\* A close that credits a NO position at the YES price.
CloseCredit_YesPriceForNo(side, qty, price) == qty * price

CloseCredit(side, qty, price) ==
    IF side = "no" THEN qty * (100 - price) ELSE qty * price

\* The loop settling a row it consumes only in part, without splitting it.
RECURSIVE CloseLoop_NoSplit(_, _, _, _, _, _, _, _)
CloseLoop_NoSplit(i, n0, remaining, rows, ticker, side, qty, credit) ==
    IF i > n0 THEN rows
    ELSE LET r == rows[i] IN
         IF ~(r.market_ticker = ticker /\ r.side = side /\ r.settled = 0)
         THEN CloseLoop_NoSplit(i + 1, n0, remaining, rows, ticker, side, qty, credit)
         ELSE IF remaining <= 0 THEN rows
         ELSE LET settle_qty == Min(r.contracts, remaining)
                  cost == settle_qty * r.price_cents
                  pnl == ((credit * settle_qty) \div qty) - cost
                  done == [r EXCEPT !.settled = 1, !.settlement_result = "CLOSED",
                                    !.pnl_cents = pnl, !.settled_at = Stamp]
              IN  IF settle_qty = r.contracts
                  THEN CloseLoop_NoSplit(i + 1, n0, remaining - settle_qty,
                                 [rows EXCEPT ![i] = done],
                                 ticker, side, qty, credit)
                  ELSE CloseLoop_NoSplit(i + 1, n0, remaining - settle_qty,
                                 [rows EXCEPT ![i] = done],
                                 ticker, side, qty, credit)

\* The FIFO loop of close_paper_position over the rows selected before the
\* loop (ids 1..n0 of the table as it was), from row i on, with `remaining`
\* contracts still to settle; `rows` is the table so far.
RECURSIVE CloseLoop(_, _, _, _, _, _, _, _)
CloseLoop(i, n0, remaining, rows, ticker, side, qty, credit) ==
    IF i > n0 THEN rows
    ELSE LET r == rows[i] IN
         IF ~(r.market_ticker = ticker /\ r.side = side /\ r.settled = 0)
         THEN CloseLoop(i + 1, n0, remaining, rows, ticker, side, qty, credit)
         ELSE IF remaining <= 0 THEN rows
         ELSE LET settle_qty == Min(r.contracts, remaining)
                  cost == settle_qty * r.price_cents
                  pnl == ((credit * settle_qty) \div qty) - cost
                  done == [r EXCEPT !.settled = 1, !.settlement_result = "CLOSED",
                                    !.pnl_cents = pnl, !.settled_at = Stamp]
              IN  IF settle_qty = r.contracts
                  THEN CloseLoop(i + 1, n0, remaining - settle_qty,
                                 [rows EXCEPT ![i] = done],
                                 ticker, side, qty, credit)
                  ELSE CloseLoop(i + 1, n0, remaining - settle_qty,
                                 Append([rows EXCEPT ![i].contracts = r.contracts - settle_qty],
                                        [done EXCEPT !.contracts = settle_qty]),
                                 ticker, side, qty, credit)

\* The two tables after close_paper_position(ticker, side, qty, price).
ClosePaperTables(trades, balance, ticker, side, qty, price) ==
    LET credit == CloseCredit(side, qty, price)
        bal == IF Len(balance) = 0 THEN PAPER_BANKROLL_START
               ELSE balance[Len(balance)].balance_cents
    IN  [trades |-> CloseLoop(1, Len(trades), qty, trades, ticker, side, qty, credit),
         balance |-> Append(balance, [balance_cents |-> bal + credit,
                                      updated_at |-> Stamp])]

\* get_paper_positions: one entry per ticker that has an unsettled row.
PaperPosition(trades, t) ==
    LET open(s) == {i \in 1..Len(trades) :
                      trades[i].market_ticker = t /\ trades[i].side = s
                      /\ trades[i].settled = 0}
        RECURSIVE Qty(_), Cost(_)
        Qty(S) == IF S = {} THEN 0
                  ELSE LET i == CHOOSE x \in S : TRUE
                       IN trades[i].contracts + Qty(S \ {i})
        Cost(S) == IF S = {} THEN 0
                   ELSE LET i == CHOOSE x \in S : TRUE
                        IN trades[i].price_cents * trades[i].contracts + Cost(S \ {i})
    IN  [ticker |-> t,
         position |-> Qty(open("yes")) - Qty(open("no")),
         market_exposure |-> Cost(open("yes")) + Cost(open("no")),
         listed |-> open("yes") \cup open("no") # {}]

get_paper_positions == [t \in Tickers |-> PaperPosition(paper_trades, t)]

----------------------------------------------------------------------------
(* Calls of the paper mirror *)

NoCall == [op |-> "none"]

\* The dates the clock can show, in days since day 0
Dates == -1..2
\* No row of metar_daily_extremes for a date
NoRow == [present |-> FALSE, running_high_f |-> 0, running_low_f |-> 0,
          observation_count |-> 0]
NoExtremes == [d \in Dates |-> NoRow]
\* new_state(date): the entry of a city before its first reading
NoState == [date |-> -1, seen |-> FALSE, high |-> 0, low |-> 0]
\* The processes that may run update_from_metar: the orchestrator and the
\* tracker started on its own
Updaters == {"bot", "tracker"}
Idle == [pc |-> "idle", temp_f |-> 0, today_et |-> 0, row |-> NoRow]
NoUpdaters == [p \in Updaters |-> Idle]
\* The processes that may run paper_trade: the orchestrator and a second
\* bot started while the first is alive
Writers == {"bot", "second"}
NoWrite == [pc |-> "idle", signal |-> <<>>, contracts |-> 0, balance |-> 0]
NoWriters == [p \in Writers |-> NoWrite]
\* PriceMonitor() before run(): self.running = True, no PID file; interval
\* and slept are the locals of the sleep loop, in seconds
\* sig_at: where run() was when the signal came; late_check: a check has
\* begun after it
NoMonitor == [pc |-> "new", running |-> TRUE, pid_file |-> FALSE,
              interval |-> 0, slept |-> 0, signalled |-> FALSE, sig_at |-> "",
              late_check |-> FALSE, raised |-> FALSE]

\* No cycle has started: the locals of run_cycle before its first statement.
NoCycle ==
    [pc |-> "idle", n |-> 0, fail |-> "none", mkts |-> <<>>,
     lockin |-> <<>>, model |-> <<>>, window_type |-> "none",
     window_signals |-> <<>>, idx |-> 0, executed |-> 0,
     event_bracket_count |-> <<>>, passed |-> {}, ran |-> {},
     today_count |-> 0, seq0 |-> 0, exit |-> ""]

PaperSignals ==
    {MkSignal(t, "high", s, p, 100 - p, 30, 40, 42, FALSE, 5, "model") :
        t \in Tickers, s \in Sides, p \in {20}}

PaperTrade(signal, contracts) ==
    /\ seq < MaxCalls
    /\ LET after == PaperTradeTables(signal, contracts) IN
        /\ paper_trades' = after.trades
        /\ paper_balance' = after.balance
        /\ last' = [op |-> "paper_trade", signal |-> signal, contracts |-> contracts,
                    gate |-> PaperTradeGate(signal, contracts)]
    /\ seq' = seq + 1
    /\ UNCHANGED <<botVars, exchVars, journal, now_utc, cycle, profit_rule_triggered, weatherVars, procVars>>

ClosePaperPosition(ticker, side, qty, price) ==
    /\ seq < MaxCalls
    /\ LET after == ClosePaperTables(paper_trades, paper_balance, ticker, side, qty, price) IN
        /\ paper_trades' = after.trades
        /\ paper_balance' = after.balance
        /\ last' = [op |-> "close_paper_position", ticker |-> ticker, side |-> side,
                    qty |-> qty, price |-> price, at |-> Stamp]
    /\ seq' = seq + 1
    /\ UNCHANGED <<botVars, exchVars, journal, now_utc, cycle, profit_rule_triggered, weatherVars, procVars>>

\* Twelve hours pass.
Tick ==
    /\ now_utc + 12 <= MaxHour
    /\ now_utc' = now_utc + 12
    /\ UNCHANGED <<botVars, paperVars, exchVars, journal, seq, last, cycle, profit_rule_triggered, weatherVars, procVars>>

NoPositions == [t \in Tickers |-> [position |-> 0, market_exposure |-> 0]]

InitPaper ==
    /\ paper_mode = TRUE
    /\ config = [attr |-> FALSE, kill_switch |-> FALSE]
    /\ triggered = FALSE
    /\ paper_trades = <<>>
    /\ paper_balance = <<[balance_cents |-> PAPER_BANKROLL_START,
                          updated_at |-> [h |-> 12, n |-> -1]]>>
    /\ cash = 0
    /\ positions = NoPositions
    /\ orders = <<>>
    /\ journal = <<>>
    /\ now_utc = 12
    /\ seq = 0
    /\ last = NoCall
    /\ cycle = NoCycle
    /\ profit_rule_triggered = FALSE
    /\ extremes = NoExtremes
    /\ temp_state = NoState
    /\ updaters = NoUpdaters
    /\ writers = NoWriters
    /\ monitor = NoMonitor

NextPaper ==
    \/ \E s \in PaperSignals, c \in {3, 10} : PaperTrade(s, c)
    \/ \E t \in Tickers, s \in Sides, q \in {3, 10}, b \in {5, 50} :
          /\ Abs(get_paper_positions[t].position) >= q
          /\ (s = "no") = (get_paper_positions[t].position < 0)
          /\ ClosePaperPosition(t, s, q, b)
    \/ Tick

SpecPaper == InitPaper /\ [][NextPaper]_vars

\* The change of balance made by the ledger row stamped `stamp`.
LedgerDelta(stamp) ==
    LET k == CHOOSE k \in 2..Len(paper_balance) : paper_balance[k].updated_at = stamp
    IN  paper_balance[k].balance_cents - paper_balance[k - 1].balance_cents

\* Row i is a whole trade as paper_trade recorded it: no close has split it.
WholeTrade(i) ==
    \A j \in RowIds : j # i => paper_trades[j].created_at # paper_trades[i].created_at

\* C3: a paper NO trade opened at p with c contracts and fully closed by
\* close_paper_position at yes_bid b carries pnl_cents = (100 - b - p) * c,
\* and the balance moved by (100 - b) * c - p * c over the open and the close.
C3_NoClosePnl ==
    (last.op = "close_paper_position" /\ last.side = "no") =>
        \A i \in RowIds :
            LET r == paper_trades[i] IN
            (r.settled = 1 /\ r.settled_at = last.at /\ r.contracts = last.qty
                /\ WholeTrade(i))
            => /\ r.pnl_cents = (100 - last.price - r.price_cents) * r.contracts
               /\ LedgerDelta(r.created_at) + LedgerDelta(r.settled_at)
                    = (100 - last.price) * r.contracts - r.price_cents * r.contracts

\* The example of the claim: 10,000 -> 9,800 -> 10,750 for p = 20, c = 10, b = 5.
C3_Witness ==
    /\ last.op = "close_paper_position" /\ last.side = "no" /\ last.price = 5
    /\ Len(paper_trades) = 1 /\ Len(paper_balance) = 3
    /\ paper_trades[1].settled = 1 /\ paper_trades[1].pnl_cents = 750
    /\ paper_trades[1].price_cents = 20 /\ paper_trades[1].contracts = 10
    /\ paper_balance[1].balance_cents = 10000
    /\ paper_balance[2].balance_cents = 9800
    /\ paper_balance[3].balance_cents = 10750

----------------------------------------------------------------------------
(* Sanity gate: WeatherBot._sanity_check *)

\* Python truthiness of a temperature: 0 (0.0) is false.
Truthy(x) == x # 0

is_lockin(signal) == signal.signal_source = "metar_lockin"

\* Flag 1 without its exemption of lock-in signals.
EdgeFlagBlocks_NoExemption(signal) ==
    signal.edge_pct > 90 /\ signal.market_yes_price >= 20

\* Flag 1: edge > 90% on a liquid market, lock-ins exempt.
EdgeFlagBlocks(signal) ==
    signal.edge_pct > 90 /\ signal.market_yes_price >= 20 /\ ~is_lockin(signal)

\* Flag 3: forecast against current temperature.
TempFlagBlocks(signal) ==
    /\ Truthy(signal.current_temp_f) /\ Truthy(signal.forecast_temp_f)
    /\ Abs(signal.forecast_temp_f - signal.current_temp_f) > 20

\* Flag 5: bracket-edge policy; skipped when temp_state.json cannot be read.
MarginFlagBlocks(signal, temp_state_ok) ==
    /\ ~is_lockin(signal) /\ ~signal.is_tomorrow
    /\ temp_state_ok
    /\ signal.margin < 2

\* The flag at which _sanity_check returns False, or "pass".
SanityGate(signal, temp_state_ok) ==
    IF EdgeFlagBlocks(signal) THEN "edge"
    ELSE IF TempFlagBlocks(signal) THEN "temp"
    ELSE IF MarginFlagBlocks(signal, temp_state_ok) THEN "margin"
    ELSE "pass"

_sanity_check(signal, temp_state_ok) == SanityGate(signal, temp_state_ok) = "pass"

\* Signals of the model path (signal_generator._analyze_brackets): the
\* forecast is 0 when there is none.
ModelSignalsWide ==
    {MkSignal("T1", "high", "no", 100 - y, y, e, cur, fc, tm, mg, "model") :
        y \in {19, 20, 25}, e \in {30, 90, 91, 95}, cur \in {0, 40, 61},
        fc \in {0, 21, 40, 61, 82}, tm \in BOOLEAN, mg \in {1, 5}}

\* Signals of the lock-in path (lockin_signals._check_impossible_bracket,
\* _check_confirmed_bracket): every temperature is the running extreme,
\* is_tomorrow and margin keep their defaults.
LockinSignalsWide ==
    {MkSignal("T1", "high", sd, IF sd = "no" THEN 100 - y ELSE y, y, e, x, x, FALSE, 0,
              "metar_lockin") :
        sd \in Sides, y \in {19, 20, 25}, e \in {30, 90, 91, 95}, x \in {0, 40, 61}}

SanityCall(signal, temp_state_ok) ==
    /\ last' = [op |-> "_sanity_check", signal |-> signal,
                temp_state_ok |-> temp_state_ok,
                result |-> _sanity_check(signal, temp_state_ok)]
    /\ UNCHANGED <<botVars, paperVars, exchVars, journal, now_utc, seq, cycle, profit_rule_triggered, weatherVars, procVars>>

NextSanity ==
    \E signal \in ModelSignalsWide \cup LockinSignalsWide, ok \in BOOLEAN :
        SanityCall(signal, ok)

SpecSanity == InitPaper /\ [][NextSanity]_vars

\* C8: _sanity_check blocks every model signal with edge_pct > 90 and
\* market_yes_price >= 20, and lets a lock-in signal with such values pass.
C8_EdgeGate ==
    (last.op = "_sanity_check" /\ last.signal.edge_pct > 90
        /\ last.signal.market_yes_price >= 20)
    => (last.result <=> last.signal.signal_source = "metar_lockin")

C8_Witness ==
    /\ last.op = "_sanity_check" /\ last.signal.signal_source = "metar_lockin"
    /\ last.signal.edge_pct = 95 /\ last.signal.market_yes_price = 25
    /\ last.result

\* C9: whatever the source and the temperatures (0 degrees F included), a
\* signal with |forecast_temp_f - current_temp_f| > 20 is blocked.
C9_TempDivergenceBlocks ==
    (last.op = "_sanity_check"
        /\ Abs(last.signal.forecast_temp_f - last.signal.current_temp_f) > 20)
    => ~last.result

----------------------------------------------------------------------------
(* The exchange behind KalshiClient *)

\* A request that raises: there is no answer to read.
Failure == [ok |-> FALSE, yes_bid |-> 0, no_bid |-> 0, no_ask |-> 0, status |-> ""]

TickerSeq == <<"T1", "T2">>     \* order of market_positions

\* GET /markets/{ticker}: the fields the bot reads.
Quote(yb, nb, na, st) ==
    [ok |-> TRUE, yes_bid |-> yb, no_bid |-> nb, no_ask |-> na, status |-> st]

\* create_order(ticker, action, side, count, "limit", yes_price | no_price)
CreateOrder(ticker, action, side, count, price) ==
    [ticker |-> ticker, action |-> action, side |-> side, count |-> count,
     order_type |-> "limit",
     yes_price |-> IF side = "yes" THEN price ELSE 0,
     no_price |-> IF side = "no" THEN price ELSE 0]

\* The order as the exchange books it.
Booked(o) ==
    [ticker |-> o.ticker, action |-> o.action, side |-> o.side, count |-> o.count,
     order_type |-> o.order_type, yes_price |-> o.yes_price, no_price |-> o.no_price,
     status |-> "resting", created_time |-> now_utc]

RECURSIVE BookAll(_)
BookAll(os) == IF os = <<>> THEN <<>> ELSE <<Booked(Head(os))>> \o BookAll(Tail(os))

OrderPrice(o) == IF o.side = "yes" THEN o.yes_price ELSE o.no_price

\* A close bought back instead of sold.
CloseOrder_Buy(ticker, side, count, price) ==
    CreateOrder(ticker, "buy", side, count, price)

\* The order every close path sends: action = "sell" on the held side.
CloseOrder(ticker, side, count, price) ==
    CreateOrder(ticker, "sell", side, count, price)

\* The position of one ticker after the exchange executes order o.
FillPosition(p, o) ==
    LET q == p.position
        signed == IF o.side = "yes" THEN o.count ELSE -o.count
        price == OrderPrice(o)
    IN  IF o.action = "buy"
        THEN IF q = 0 \/ (q > 0) = (signed > 0)
             THEN [position |-> q + signed,
                   market_exposure |-> p.market_exposure + price * o.count]
             ELSE IF o.count <= Abs(q)
             THEN [position |-> q + signed,
                   market_exposure |-> p.market_exposure
                                        - IntDiv(p.market_exposure * o.count, Abs(q))]
             ELSE [position |-> q + signed,
                   market_exposure |-> price * (o.count - Abs(q))]
        ELSE \* a sell reduces what is held on that side, at most to nothing
             IF q = 0 \/ (q > 0) # (signed > 0) THEN p
             ELSE LET k == Min(o.count, Abs(q)) IN
                  [position |-> IF q > 0 THEN q - k ELSE q + k,
                   market_exposure |-> p.market_exposure
                                        - IntDiv(p.market_exposure * k, Abs(q))]

\* The cash of the account after the exchange executes order o.
FillCash(p, o) ==
    IF o.action = "buy" THEN cash - OrderPrice(o) * o.count
    ELSE IF p.position = 0 \/ (p.position > 0) # (o.side = "yes") THEN cash
    ELSE cash + OrderPrice(o) * Min(o.count, Abs(p.position))

\* The exchange executes a resting order, or cancels a buy the account
\* cannot pay.
ExchangeFill(i) ==
    /\ orders[i].status = "resting"
    /\ IF FillCash(positions[orders[i].ticker], orders[i]) < 0
       THEN /\ orders' = [orders EXCEPT ![i].status = "canceled"]
            /\ UNCHANGED <<cash, positions>>
       ELSE /\ orders' = [orders EXCEPT ![i].status = "executed"]
            /\ cash' = FillCash(positions[orders[i].ticker], orders[i])
            /\ positions' = [positions EXCEPT
                                ![orders[i].ticker] = FillPosition(@, orders[i])]
    /\ UNCHANGED <<botVars, paperVars, journal, now_utc, seq, last, cycle, profit_rule_triggered, weatherVars, procVars>>

----------------------------------------------------------------------------
(* Close paths of the orchestrator: bot.py *)

take_profit_pct == 35
CUT_LOSS_PCT == 42
CUT_MIN_BID == 2

\* What check_take_profits and cut_losers compute for one position.
SweepTarget(pos, mkt) ==
    LET qty == pos.position IN
    IF qty < 0
    THEN [cost |-> pos.market_exposure, current_val |-> Abs(qty) * (100 - mkt.yes_bid),
          sell_side |-> "no", sell_price |-> mkt.no_bid, sell_qty |-> Abs(qty)]
    ELSE [cost |-> pos.market_exposure, current_val |-> qty * mkt.yes_bid,
          sell_side |-> "yes", sell_price |-> mkt.yes_bid, sell_qty |-> qty]

\* gain_pct >= take_profit_pct, gain_pct = (current_val - cost) / cost * 100
\* when cost > 0 and 0 otherwise.
GainReached(tg) ==
    IF tg.cost > 0 THEN (tg.current_val - tg.cost) * 100 >= take_profit_pct * tg.cost
    ELSE 0 >= take_profit_pct

\* The take-profit test without the check of the market's status.
TakeProfitFires_AnyStatus(pos, mkt) ==
    /\ pos.position # 0
    /\ mkt # Failure
    /\ SweepTarget(pos, mkt).sell_price > 0
    /\ GainReached(SweepTarget(pos, mkt))

TakeProfitFires(pos, mkt) ==
    /\ pos.position # 0
    /\ mkt # Failure
    /\ mkt.status = "active"
    /\ SweepTarget(pos, mkt).sell_price > 0
    /\ GainReached(SweepTarget(pos, mkt))

\* A cut that needs more than 42% of loss.
LossReached_Strict(tg) ==
    IF tg.cost > 0 THEN (tg.cost - tg.current_val) * 100 > CUT_LOSS_PCT * tg.cost
    ELSE (tg.cost - tg.current_val) * 100 < CUT_LOSS_PCT * tg.cost

\* loss_pct >= 42, loss_pct = (cost - current_val) / cost * 100
LossReached(tg) ==
    IF tg.cost > 0 THEN (tg.cost - tg.current_val) * 100 >= CUT_LOSS_PCT * tg.cost
    ELSE (tg.cost - tg.current_val) * 100 <= CUT_LOSS_PCT * tg.cost

CutLoserFires(pos, mkt) ==
    /\ pos.position # 0
    /\ mkt # Failure
    /\ mkt.status = "active"
    /\ SweepTarget(pos, mkt).cost # 0
    /\ LossReached(SweepTarget(pos, mkt))
    /\ SweepTarget(pos, mkt).sell_price >= CUT_MIN_BID

\* What each close path decides for one position: <<>> or one close
\* [side, qty, price (the limit price), yes_bid (what the paper close gets)].
Close(side, qty, price, yes_bid) ==
    <<[side |-> side, qty |-> qty, price |-> price, yes_bid |-> yes_bid]>>

\* A winning NO position closed at the NO bid instead of the NO ask.
WinningClose_NoBid(pos, mkt) ==
    LET qty == pos.position
        exposure == pos.market_exposure
        skip == IF paper_mode THEN qty = 0 ELSE qty = 0 /\ exposure = 0
    IN  IF skip \/ mkt = Failure THEN <<>>
        ELSE IF qty < 0
        THEN IF mkt.no_ask * Abs(qty) < exposure /\ mkt.no_ask > 0
             THEN Close("no", Abs(qty), mkt.no_bid, mkt.yes_bid) ELSE <<>>
        ELSE IF qty > 0
        THEN IF mkt.yes_bid * qty > exposure
             THEN Close("yes", qty, mkt.yes_bid, mkt.yes_bid) ELSE <<>>
        ELSE <<>>

WinningClose(pos, mkt) ==
    LET qty == pos.position
        exposure == pos.market_exposure
        skip == IF paper_mode THEN qty = 0 ELSE qty = 0 /\ exposure = 0
    IN  IF skip \/ mkt = Failure THEN <<>>
        ELSE IF qty < 0
        THEN \* no_ask < exposure / abs_qty and no_ask > 0
             IF mkt.no_ask * Abs(qty) < exposure /\ mkt.no_ask > 0
             THEN Close("no", Abs(qty), mkt.no_ask, mkt.yes_bid) ELSE <<>>
        ELSE IF qty > 0
        THEN \* yes_bid > exposure / qty
             IF mkt.yes_bid * qty > exposure
             THEN Close("yes", qty, mkt.yes_bid, mkt.yes_bid) ELSE <<>>
        ELSE <<>>

AllClose(pos, mkt) ==
    LET qty == pos.position IN
    IF qty = 0 \/ mkt = Failure THEN <<>>
    ELSE IF qty < 0
    THEN IF paper_mode \/ mkt.no_bid > 0
         THEN Close("no", Abs(qty), mkt.no_bid, mkt.yes_bid) ELSE <<>>
    ELSE IF mkt.yes_bid > 0
         THEN Close("yes", qty, mkt.yes_bid, mkt.yes_bid) ELSE <<>>

TakeProfitClose(pos, mkt) ==
    IF TakeProfitFires(pos, mkt)
    THEN LET tg == SweepTarget(pos, mkt)
         IN Close(tg.sell_side, tg.sell_qty, tg.sell_price, mkt.yes_bid)
    ELSE <<>>

CutLoserClose(pos, mkt) ==
    IF CutLoserFires(pos, mkt)
    THEN LET tg == SweepTarget(pos, mkt)
         IN Close(tg.sell_side, tg.sell_qty, tg.sell_price, mkt.yes_bid)
    ELSE <<>>

PathClose(path, pos, mkt) ==
    CASE path = "_liquidate_winning_positions" -> WinningClose(pos, mkt)
      [] path = "_liquidate_all_positions" -> AllClose(pos, mkt)
      [] path = "check_take_profits" -> TakeProfitClose(pos, mkt)
      [] path = "cut_losers" -> CutLoserClose(pos, mkt)

ClosePaths == {"_liquidate_winning_positions", "_liquidate_all_positions",
               "check_take_profits", "cut_losers"}

\* Live: the orders a path sends for the positions pos, tickers k.. of
\* TickerSeq, with the markets mkts.
RECURSIVE LiveSweep(_, _, _, _)
LiveSweep(path, k, pos, mkts) ==
    IF k > Len(TickerSeq) THEN <<>>
    ELSE LET t == TickerSeq[k]
             c == PathClose(path, pos[t], mkts[t])
         IN (IF c = <<>> THEN <<>>
             ELSE <<CloseOrder(t, c[1].side, c[1].qty, c[1].price)>>)
            \o LiveSweep(path, k + 1, pos, mkts)

\* Paper: the tables after a path has gone through the positions pos (read
\* before the loop), closing with close_paper_position.
RECURSIVE PaperSweep(_, _, _, _, _)
PaperSweep(path, k, pos, mkts, tables) ==
    IF k > Len(TickerSeq) THEN tables
    ELSE LET t == TickerSeq[k]
             c == IF pos[t].listed THEN PathClose(path, pos[t], mkts[t]) ELSE <<>>
         IN PaperSweep(path, k + 1, pos, mkts,
                IF c = <<>> THEN tables
                ELSE ClosePaperTables(tables.trades, tables.balance,
                                      t, c[1].side, c[1].qty, c[1].yes_bid))

\* One call of a close path.  positions_ok: GET /portfolio/positions
\* answers (the winning-positions path is handed its positions).
SweepEffect(path, positions_ok, mkts) ==
    IF paper_mode
       THEN LET after == PaperSweep(path, 1, get_paper_positions, mkts,
                                    [trades |-> paper_trades, balance |-> paper_balance])
            IN /\ paper_trades' = after.trades
               /\ paper_balance' = after.balance
               /\ orders' = orders
               /\ last' = [op |-> path, positions |-> get_paper_positions,
                           positions_ok |-> TRUE,
                           mkts |-> mkts, issued |-> <<>>, at |-> Stamp]
       ELSE LET read == positions_ok \/ path = "_liquidate_winning_positions"
                issued == IF read THEN LiveSweep(path, 1, positions, mkts) ELSE <<>>
            IN /\ orders' = orders \o BookAll(issued)
               /\ UNCHANGED paperVars
               /\ last' = [op |-> path, positions |-> positions,
                           positions_ok |-> read,
                           mkts |-> mkts, issued |-> issued, at |-> Stamp]

CloseSweep(path, positions_ok, mkts) ==
    /\ seq < MaxSweeps
    /\ seq' = seq + 1
    /\ SweepEffect(path, positions_ok, mkts)
    /\ UNCHANGED <<botVars, cash, positions, journal, now_utc, cycle, profit_rule_triggered, weatherVars, procVars>>

\* Quotes the markets can show.
QuotesT1 ==
    {Quote(71, 29, 30, "active"), Quote(70, 29, 31, "active"),
     Quote(99, 1, 2, "active"), Quote(71, 29, 30, "closed"),
     Quote(20, 79, 80, "active"), Quote(10, 14, 15, "active"), Failure}

QuotesT2 == {Quote(90, 9, 11, "active")}

Markets == {[t \in Tickers |-> IF t = "T1" THEN a ELSE b] : a \in QuotesT1, b \in QuotesT2}

Position(qty, exposure) == [position |-> qty, market_exposure |-> exposure]

\* Accounts a live bot can hold when a sweep starts.
LiveBooks ==
    {[t \in Tickers |-> IF t = "T1" THEN b[1] ELSE b[2]] :
        b \in {<<Position(-10, 500), Position(10, 600)>>,
               <<Position(-5, 400), Position(0, 0)>>,
               <<Position(10, 300), Position(-10, 200)>>}}

\* Paper books: the rows of earlier paper trades, with their ledger.
PaperBookRow(ticker, side, price, contracts) ==
    [market_ticker |-> ticker, side |-> side, price_cents |-> price,
     contracts |-> contracts, settled |-> 0, settlement_result |-> None,
     pnl_cents |-> 0, signal_source |-> "model",
     created_at |-> [h |-> 12, n |-> -1], settled_at |-> NoStamp]

RECURSIVE BookLedger(_, _)
BookLedger(rows, balance) ==
    IF rows = <<>> THEN <<>>
    ELSE LET b == balance - Head(rows).price_cents * Head(rows).contracts
         IN <<[balance_cents |-> b, updated_at |-> [h |-> 12, n |-> -1]]>>
            \o BookLedger(Tail(rows), b)

PaperBooks ==
    {<<PaperBookRow("T1", "no", 50, 10)>>,
     <<PaperBookRow("T1", "yes", 30, 10), PaperBookRow("T2", "no", 20, 10)>>}

InitClose ==
    /\ paper_mode \in BOOLEAN
    /\ config = [attr |-> FALSE, kill_switch |-> FALSE]
    /\ cash = IF paper_mode THEN 0 ELSE 10000
    /\ triggered = FALSE
    /\ IF paper_mode
       THEN /\ paper_trades \in PaperBooks
            /\ positions = NoPositions
       ELSE /\ paper_trades = <<>>
            /\ positions \in LiveBooks
    /\ paper_balance = <<[balance_cents |-> PAPER_BANKROLL_START,
                          updated_at |-> [h |-> 12, n |-> -1]]>>
                       \o BookLedger(paper_trades, PAPER_BANKROLL_START)
    /\ orders = <<>>
    /\ journal = <<>>
    /\ now_utc = 12
    /\ seq = 0
    /\ last = NoCall
    /\ cycle = NoCycle
    /\ profit_rule_triggered = FALSE
    /\ extremes = NoExtremes
    /\ temp_state = NoState
    /\ updaters = NoUpdaters
    /\ writers = NoWriters
    /\ monitor = NoMonitor

NextClose ==
    \/ \E path \in ClosePaths, ok \in BOOLEAN, mkts \in Markets :
          /\ ok \/ mkts = CHOOSE m \in Markets : TRUE
          /\ CloseSweep(path, ok, mkts)
    \/ \E i \in 1..Len(orders) : ExchangeFill(i)

SpecClose == InitClose /\ [][NextClose]_vars

\* C1: every order a live close path sends is a sell of exactly what the
\* path read as held: (sell, no, |qty|) for qty < 0, (sell, yes, qty) for
\* qty > 0; no close path sends action = buy.
C1_ClosesAreSells ==
    /\ (last.op \in ClosePaths /\ ~paper_mode) =>
          \A i \in 1..Len(last.issued) :
             LET o == last.issued[i]
                 qty == last.positions[o.ticker].position
             IN /\ o.action = "sell"
                /\ \/ qty < 0 /\ o.side = "no" /\ o.count = -qty
                   \/ qty > 0 /\ o.side = "yes" /\ o.count = qty
    /\ \A i \in 1..Len(orders) : orders[i].action # "buy"

\* A live sweep has closed a NO position and a YES position.
C1_Witness ==
    /\ last.op \in ClosePaths
    /\ ~paper_mode
    /\ \E i, j \in 1..Len(last.issued) :
          /\ last.issued[i].side = "no"
          /\ last.positions[last.issued[i].ticker].position < 0
          /\ last.issued[j].side = "yes"
          /\ last.positions[last.issued[j].ticker].position > 0

\* The orders the last call sent for ticker t.
IssuedFor(t) == {i \in 1..Len(last.issued) : last.issued[i].ticker = t}

CutCase(t) ==
    /\ last.op = "cut_losers"
    /\ ~paper_mode
    /\ last.positions[t].position < 0
    /\ last.mkts[t] # Failure

----------------------------------------------------------------------------
(* Risk gate: WeatherBot.check_risk_limits and what it calls *)

min_edge_pct == 15
bonus_trades_after_wins == 18
bonus_trade_count == 2
max_contracts_per_ticker == 50
min_entry_price == 2
BASE_BALANCE_CENTS == 8000
MAX_STACK == 25

\* Which requests of one call are answered; a request that is not raises.
\*   cap: get_positions of the per-ticker cap      dup: get_positions of
\*   _is_live_duplicate and _get_existing_position_size
\*   risk: get_balance and get_positions of the capital cap
\*   scale: those of _get_account_scale_factor     count: get_orders
\*   looking: those of _count_looking_good         size: get_balance of
\*   calculate_position_size                       order: create_order
ApiOk ==
    [cap |-> TRUE, dup |-> TRUE, risk |-> TRUE, scale |-> TRUE, count |-> TRUE,
     looking |-> TRUE, size |-> TRUE, order |-> TRUE]

\* Every request answered, or one of them raising.
ApiOutcomes == {ApiOk} \cup {[ApiOk EXCEPT ![f] = FALSE] : f \in DOMAIN ApiOk}

\* What a position is worth at the market's quote.
CurrentValue(pos, mkt) ==
    IF pos.position < 0 THEN Abs(pos.position) * (100 - mkt.yes_bid)
    ELSE pos.position * mkt.yes_bid

\* get_paper_portfolio_value: the enriched entry of one ticker; a market
\* that cannot be read is valued at cost.
PaperEnriched(t, mkts) ==
    LET pos == get_paper_positions[t] IN
    [listed |-> pos.listed /\ pos.position # 0,
     position |-> pos.position,
     market_exposure |-> pos.market_exposure,
     current_value |-> IF mkts[t] = Failure THEN pos.market_exposure
                       ELSE CurrentValue(pos, mkts[t])]

RECURSIVE SumOver(_, _)
SumOver(f, S) ==
    IF S = {} THEN 0
    ELSE LET x == CHOOSE x \in S : TRUE IN f[x] + SumOver(f, S \ {x})

get_paper_total_account_value(mkts) ==
    get_paper_balance
    + SumOver([t \in Tickers |-> IF PaperEnriched(t, mkts).listed
                                 THEN PaperEnriched(t, mkts).current_value ELSE 0],
              Tickers)

\* sum(abs(market_exposure)) over the positions with position != 0
OpenExposure(pos) ==
    SumOver([t \in Tickers |-> IF pos[t].position # 0
                               THEN Abs(pos[t].market_exposure) ELSE 0], Tickers)

PaperOpenExposure ==
    OpenExposure([t \in Tickers |->
                    IF get_paper_positions[t].listed THEN get_paper_positions[t]
                    ELSE [position |-> 0, market_exposure |-> 0]])

\* The capital cap: total_exposure >= int(total_account * 0.40).  A live
\* query that raises leaves max_exposure_cents = 1000, total_exposure = 0.
CapitalCapHit(api, mkts) ==
    IF paper_mode
    THEN PaperOpenExposure >= (get_paper_total_account_value(mkts) * 4) \div 10
    ELSE IF api.risk
    THEN OpenExposure(positions) >= ((cash + OpenExposure(positions)) * 4) \div 10
    ELSE 0 >= 1000

_get_live_trade_count(api) ==
    IF api.count
    THEN Cardinality({i \in 1..Len(orders) :
                        /\ orders[i].status \in {"resting", "executed"}
                        /\ DateET(orders[i].created_time) = DateET(now_utc)})
    ELSE 0

\* The balance _get_account_scale_factor divides by BASE_BALANCE_CENTS; a
\* live query that raises gives the factor 1.0.
ScaleBalance(api) ==
    IF paper_mode THEN get_paper_balance
    ELSE IF api.scale
    THEN cash + SumOver([t \in Tickers |-> Abs(positions[t].market_exposure)], Tickers)
    ELSE BASE_BALANCE_CENTS

\* int(k * scale_factor), scale_factor = max(0.5, balance / 8000)
Scaled(k, api) ==
    (k * Max(BASE_BALANCE_CENTS \div 2, ScaleBalance(api))) \div BASE_BALANCE_CENTS

_get_todays_wins ==
    Cardinality({i \in RowIds :
                    /\ paper_trades[i].settled = 1
                    /\ paper_trades[i].pnl_cents > 0
                    /\ DateUTC(paper_trades[i].created_at.h) = DateUTC(now_utc)})

_count_looking_good(api, mkts) ==
    IF paper_mode
    THEN Cardinality({t \in Tickers :
                        /\ PaperEnriched(t, mkts).listed
                        /\ PaperEnriched(t, mkts).current_value
                              > PaperEnriched(t, mkts).market_exposure})
    ELSE IF api.looking /\ \A t \in Tickers : positions[t].position = 0 \/ mkts[t] # Failure
    THEN Cardinality({t \in Tickers :
                        /\ positions[t].position # 0
                        /\ CurrentValue(positions[t], mkts[t])
                              > positions[t].market_exposure})
    ELSE 0

\* base_max = max(8, int(max_trades_per_day * scale))
BaseMax(api) == Max(8, Scaled(max_trades_per_day, api))

\* effective_max after "if self._80pct_triggered: effective_max = base_max + 10"
RuleMax(api) == IF triggered THEN BaseMax(api) + 10 ELSE BaseMax(api)

\* The step at which check_risk_limits returns False, or "pass".
RiskGate(signal, api, mkts) ==
    LET today_count == IF paper_mode THEN get_todays_trade_count
                       ELSE _get_live_trade_count(api)
        base_max == BaseMax(api)
        bonus_threshold == Max(6, Scaled(bonus_trades_after_wins, api))
        after_rule == RuleMax(api)
        bonus == _get_todays_wins >= bonus_threshold
        after_bonus == IF bonus THEN Max(after_rule, base_max + bonus_trade_count)
                       ELSE after_rule
        looking_good_threshold == Max(7, Scaled(17, api))
        effective_max ==
            IF /\ today_count >= after_bonus
               /\ _count_looking_good(api, mkts) >= looking_good_threshold
               /\ today_count < after_bonus + 3
            THEN after_bonus + 3 ELSE after_bonus
        min_edge == IF is_lockin(signal) THEN 1 ELSE min_edge_pct
    IN  IF CapitalCapHit(api, mkts) THEN "capital_cap"
        ELSE IF bonus /\ today_count >= base_max
                /\ (signal.side # "yes" \/ signal.suggested_price > 10)
        THEN "bonus_slot"
        ELSE IF today_count >= effective_max THEN "max_trades"
        ELSE IF signal.edge_pct < min_edge THEN "min_edge"
        ELSE "pass"

check_risk_limits(signal, api, mkts) == RiskGate(signal, api, mkts) = "pass"

----------------------------------------------------------------------------
(* Sizing: WeatherBot.calculate_position_size *)

\* True if the account holds anything on the ticker, whatever the side; a
\* query that raises answers False.
_is_live_duplicate(ticker, side, api) ==
    api.dup /\ positions[ticker].position # 0

_get_existing_position_size(ticker, api) ==
    IF api.dup THEN Abs(positions[ticker].position) ELSE 0

is_stacking(signal, api) ==
    IF paper_mode THEN is_duplicate_trade(signal.market_ticker, signal.side)
    ELSE _is_live_duplicate(signal.market_ticker, signal.side, api)

stack_multiplier(signal, api) ==
    IF is_stacking(signal, api) /\ is_lockin(signal)
    THEN IF signal.edge_pct >= 80 THEN 5
         ELSE IF signal.edge_pct >= 40 THEN 3
         ELSE 1
    ELSE IF signal.is_tomorrow /\ signal.edge_pct >= 40 /\ signal.side = "no" THEN 2
    ELSE 1

\* jitter: the random.choice([-1, 0, 0, 1]) drawn when contracts >= 3.
calculate_position_size(signal, api, jitter) ==
    LET price == signal.suggested_price
        mult == stack_multiplier(signal, api)
        standard == signal.side # "no" /\ price < 50
        min_risk_cents == IF signal.side = "no" THEN 175
                          ELSE IF price >= 50 THEN 0 ELSE 100
        contracts_by_risk ==
            IF signal.side = "no" THEN (225 * mult) \div price
            ELSE IF price >= 50 THEN Max(3, (175 * mult) \div price)
            ELSE (125 * mult) \div price
        capped == Min(contracts_by_risk, 10)
        deployed == IF min_risk_cents > 0
                    THEN Max(capped, Max(1, CeilDiv(min_risk_cents, price)))
                    ELSE capped
        balance == IF paper_mode THEN get_paper_balance ELSE cash
        max_by_bankroll == IntDiv(balance * max_position_pct, 100) \div price
        contracts == Min(deployed, max_by_bankroll)
        jittered == IF contracts >= 3 THEN Max(1, contracts + jitter) ELSE contracts
    IN  IF price <= 0 THEN 0
        ELSE IF standard /\ price < min_entry_price THEN 0
        ELSE IF ~paper_mode /\ ~api.size THEN 0
        ELSE Max(0, jittered)

----------------------------------------------------------------------------
(* Execution: WeatherBot.execute_signal *)

\* A bot that lets every YES buy through.
YesBlocked_Never(signal) == FALSE

\* if signal.side == "yes" and not is_lockin: return None
YesBlocked(signal) == signal.side = "yes" /\ ~is_lockin(signal)

\* The place at which execute_signal stops: the exception it raises, the
\* check at which it returns None, or "ok" when the trade is recorded
\* (paper) or the order placed (live).
ExecGate(signal, api, mkts, temp_state_ok, jitter) ==
    IF ~config.attr THEN "AttributeError"
    ELSE IF config.kill_switch THEN "kill_switch"
    ELSE IF ~api.cap THEN "cap_check_failed"
    ELSE IF Abs(positions[signal.market_ticker].position) >= max_contracts_per_ticker
    THEN "position_cap"
    ELSE IF YesBlocked(signal) THEN "yes_block"
    ELSE IF ~_sanity_check(signal, temp_state_ok) THEN "sanity"
    ELSE IF paper_mode /\ is_duplicate_trade(signal.market_ticker, signal.side)
            /\ ~is_lockin(signal)
    THEN "dedup"
    ELSE IF ~paper_mode /\ _is_live_duplicate(signal.market_ticker, signal.side, api)
            /\ ~is_lockin(signal)
    THEN "dedup"
    ELSE IF ~paper_mode /\ _is_live_duplicate(signal.market_ticker, signal.side, api)
            /\ _get_existing_position_size(signal.market_ticker, api) >= MAX_STACK
    THEN "max_stack"
    ELSE IF ~check_risk_limits(signal, api, mkts) THEN "risk"
    ELSE IF calculate_position_size(signal, api, jitter) <= 0 THEN "size0"
    ELSE IF paper_mode
    THEN PaperTradeGate(signal, calculate_position_size(signal, api, jitter))
    ELSE IF ~api.order THEN "order_failed"
    ELSE "ok"

\* The gates before the duplicate check.
EarlyGates ==
    {"AttributeError", "kill_switch", "cap_check_failed", "position_cap",
     "yes_block", "sanity"}

\* The gates that are not about duplicates or stacking.
OtherGates ==
    EarlyGates \cup {"max_stack", "risk", "size0", "paper_max_position",
                     "paper_max_trades", "paper_balance", "order_failed"}

JournalRow(signal, contracts) ==
    [ticker |-> signal.market_ticker, side |-> signal.side, contracts |-> contracts,
     entry_price_cents |-> signal.suggested_price,
     signal_source |-> signal.signal_source, created_at |-> Stamp,
     settled |-> 0, settlement_result |-> None, pnl_cents |-> 0,
     settled_at |-> NoStamp]

\* An unsettled trade on (ticker, side) opened on the current ET day: a row
\* of the paper table, or a journalled live trade the account still holds.
OpenToday(ticker, side) ==
    IF paper_mode THEN is_duplicate_trade(ticker, side)
    ELSE /\ \E i \in 1..Len(journal) :
               /\ journal[i].ticker = ticker /\ journal[i].side = side
               /\ DateET(journal[i].created_at.h) = DateET(now_utc)
         /\ IF side = "yes" THEN positions[ticker].position > 0
            ELSE positions[ticker].position < 0

\* An unsettled trade on (ticker, side), whatever its day.
OpenSame(ticker, side) ==
    IF paper_mode
    THEN \E i \in RowIds : /\ paper_trades[i].market_ticker = ticker
                           /\ paper_trades[i].side = side
                           /\ paper_trades[i].settled = 0
    ELSE IF side = "yes" THEN positions[ticker].position > 0
    ELSE positions[ticker].position < 0

\* Contracts held on the ticker: unsettled paper rows, or the live position.
Held(ticker) ==
    IF paper_mode
    THEN SumOver([i \in RowIds |->
                    IF paper_trades[i].market_ticker = ticker /\ paper_trades[i].settled = 0
                    THEN paper_trades[i].contracts ELSE 0], RowIds)
    ELSE Abs(positions[ticker].position)

\* The account value the capital cap is about: cash plus the positions.
AccountValue(mkts) ==
    IF paper_mode THEN get_paper_total_account_value(mkts)
    ELSE cash + OpenExposure(positions)

TrueExposure == IF paper_mode THEN PaperOpenExposure ELSE OpenExposure(positions)

\* What one call of execute_signal does to the tables and the exchange.
ExecEffect(signal, api, mkts, temp_state_ok, jitter) ==
    LET gate == ExecGate(signal, api, mkts, temp_state_ok, jitter)
           contracts == calculate_position_size(signal, api, jitter)
           reached_risk == gate \notin EarlyGates \cup {"dedup", "max_stack"}
       IN
        /\ IF gate = "ok" /\ paper_mode
           THEN /\ paper_trades' = PaperTradeTables(signal, contracts).trades
                /\ paper_balance' = PaperTradeTables(signal, contracts).balance
                /\ UNCHANGED <<orders, journal>>
           ELSE IF gate = "ok"
           THEN /\ orders' = Append(orders,
                        Booked(CreateOrder(signal.market_ticker, signal.action,
                                           signal.side, contracts,
                                           signal.suggested_price)))
                /\ journal' = Append(journal, JournalRow(signal, contracts))
                /\ UNCHANGED paperVars
           ELSE UNCHANGED <<paperVars, orders, journal>>
        /\ last' = [op |-> "execute_signal", signal |-> signal, gate |-> gate,
                    result |-> IF gate = "AttributeError" THEN "raise"
                               ELSE IF gate = "ok" THEN "placed" ELSE None,
                    kill_switch |-> config.kill_switch,
                    constructed |-> ~config.attr,
                    risk |-> IF reached_risk THEN RiskGate(signal, api, mkts)
                             ELSE "not_called",
                    exposure |-> TrueExposure,
                    account |-> AccountValue(mkts),
                    open_today |-> OpenToday(signal.market_ticker, signal.side),
                    open_same |-> OpenSame(signal.market_ticker, signal.side),
                    risk_query_ok |-> paper_mode \/ api.risk,
                    dup_query_ok |-> paper_mode \/ api.dup,
                    stack_multiplier |-> stack_multiplier(signal, api),
                    contracts |-> IF gate = "ok" THEN contracts ELSE 0,
                    at |-> Stamp]

ExecuteSignal(signal, api, mkts, temp_state_ok, jitter) ==
    /\ seq < MaxExec
    /\ seq' = seq + 1
    /\ ExecEffect(signal, api, mkts, temp_state_ok, jitter)
    /\ UNCHANGED <<botVars, cash, positions, now_utc, cycle, profit_rule_triggered, weatherVars, procVars>>

\* What the tests do after the constructor: bot.config = config.
AssignConfig ==
    /\ ~config.attr
    /\ config' = [config EXCEPT !.attr = TRUE]
    /\ UNCHANGED <<paper_mode, triggered, paperVars, exchVars, journal, now_utc, seq, last, cycle, profit_rule_triggered, weatherVars, procVars>>

\* Signals handed to execute_signal.  Model signals sell NO (or, blocked,
\* buy YES); lock-in signals carry the running extreme as every temperature
\* and the edge their price gives.
ExecSignals ==
    {MkSignal(t, "high", "no", 50, 50, 30, 40, 42, FALSE, 5, "model") : t \in Tickers}
    \cup {MkSignal("T1", "high", "no", 50, 50, 10, 40, 42, FALSE, 5, "model"),
          MkSignal("T1", "high", "yes", 30, 30, 30, 40, 42, FALSE, 5, "model"),
          MkSignal("T1", "high", "no", 50, 50, 30, 40, 61, FALSE, 5, "model"),
          MkSignal("T1", "high", "no", 50, 50, 30, 40, 42, FALSE, 1, "model")}
    \cup {MkSignal(t, "high", "no", 10, 90, 98, 61, 61, FALSE, 0, "metar_lockin") :
            t \in Tickers}
    \cup {MkSignal(t, "high", "yes", 60, 60, 65, 61, 61, FALSE, 0, "metar_lockin") :
            t \in Tickers}

ExecMarkets ==
    {[t \in Tickers |-> Quote(40, 59, 61, "active")],
     [t \in Tickers |-> IF t = "T1" THEN Failure ELSE Quote(90, 9, 11, "active")]}

\* The account of a bot that has traded and lost before: little cash, one
\* NO position of 10 contracts bought at 60 on an earlier day.
DeployedCash == 500
DeployedPositions ==
    [t \in Tickers |-> IF t = "T2" THEN Position(-10, 600) ELSE Position(0, 0)]
DeployedRow ==
    [market_ticker |-> "T2", side |-> "no", price_cents |-> 60,
     contracts |-> 10, settled |-> 0, settlement_result |-> None,
     pnl_cents |-> 0, signal_source |-> "model",
     created_at |-> [h |-> -12, n |-> -1], settled_at |-> NoStamp]
DeployedJournal ==
    <<[ticker |-> "T2", side |-> "no", contracts |-> 10, entry_price_cents |-> 60,
       signal_source |-> "model", created_at |-> [h |-> -12, n |-> -1],
       settled |-> 0, settlement_result |-> None, pnl_cents |-> 0,
       settled_at |-> NoStamp]>>

\* The other inputs of one call: which requests are answered, the quotes,
\* whether temp_state.json can be read, the jitter drawn.  One of them at a
\* time departs from the plain call.
PlainCall ==
    [api |-> ApiOk, mkts |-> [t \in Tickers |-> Quote(40, 59, 61, "active")],
     temp_state_ok |-> TRUE, jitter |-> 0]

ExecInputs ==
    {[PlainCall EXCEPT !.api = a] : a \in ApiOutcomes}
    \cup {[PlainCall EXCEPT !.mkts = m] : m \in ExecMarkets}
    \cup {[PlainCall EXCEPT !.temp_state_ok = FALSE]}
    \cup {[PlainCall EXCEPT !.jitter = j] : j \in {-1, 1}}

\* A day passes.
NextDay ==
    /\ now_utc + 24 <= MaxHour
    /\ now_utc' = now_utc + 24
    /\ UNCHANGED <<botVars, paperVars, exchVars, journal, seq, last, cycle, profit_rule_triggered, weatherVars, procVars>>

Init ==
    /\ paper_mode \in BOOLEAN
    /\ config \in {[attr |-> FALSE, kill_switch |-> k] : k \in BOOLEAN}
    /\ triggered = FALSE
    /\ \E deployed \in BOOLEAN :
        /\ paper_trades = IF paper_mode /\ deployed THEN <<DeployedRow>> ELSE <<>>
        /\ paper_balance =
              <<[balance_cents |-> IF paper_mode /\ deployed THEN DeployedCash
                                   ELSE PAPER_BANKROLL_START,
                 updated_at |-> [h |-> -12, n |-> -1]]>>
        /\ cash = IF paper_mode THEN 0
                  ELSE IF deployed THEN DeployedCash ELSE 10000
        /\ positions = IF ~paper_mode /\ deployed THEN DeployedPositions
                       ELSE NoPositions
        /\ journal = IF ~paper_mode /\ deployed THEN DeployedJournal ELSE <<>>
    /\ orders = <<>>
    /\ now_utc = 12
    /\ seq = 0
    /\ last = NoCall
    /\ cycle = NoCycle
    /\ profit_rule_triggered = FALSE
    /\ extremes = NoExtremes
    /\ temp_state = NoState
    /\ updaters = NoUpdaters
    /\ writers = NoWriters
    /\ monitor = NoMonitor

Next ==
    \/ AssignConfig
    \/ \E signal \in ExecSignals, in \in ExecInputs :
          ExecuteSignal(signal, in.api, in.mkts, in.temp_state_ok, in.jitter)
    \/ \E i \in 1..Len(orders) : ExchangeFill(i)
    \/ NextDay

Spec == Init /\ [][Next]_vars

\* C2: with kill_switch = true in the configuration, execute_signal of a
\* bot built by the constructor returns None, whatever the signal, and
\* places or records nothing.
C2_KillSwitch ==
    (last.op = "execute_signal" /\ last.kill_switch /\ last.constructed)
    => (last.result = None /\ last.gate = "kill_switch")

\* C4: paper or live, when the open exposure is at least 40% of the account
\* value, check_risk_limits returns False.
C4_CapitalCap ==
    (last.op = "execute_signal" /\ last.risk # "not_called"
        /\ last.exposure * 10 >= last.account * 4)
    => last.risk # "pass"

\* C5: a model signal is rejected as a duplicate while a trade on its
\* (ticker, side) opened on the current ET day is unsettled, and is not
\* rejected as a duplicate when no open trade has its ticker and side
\* (stated for the calls whose positions query is answered).
C5_Dedup ==
    (last.op = "execute_signal" /\ last.signal.signal_source = "model"
        /\ last.gate \notin EarlyGates /\ last.dup_query_ok)
    => /\ last.open_today => last.gate = "dedup"
       /\ ~last.open_same => last.gate # "dedup"

\* C6: a lock-in signal on a (ticker, side) held from an unsettled trade of
\* the same day that passes the other gates ends in a second recorded trade
\* (paper) or placed order (live), sized with multiplier 5 for edge >= 80
\* and 3 for 40 <= edge < 80.
C6_LockinStack ==
    (last.op = "execute_signal" /\ last.signal.signal_source = "metar_lockin"
        /\ last.open_today /\ last.gate \notin OtherGates)
    => /\ last.result = "placed"
       /\ last.signal.edge_pct >= 80 => last.stack_multiplier = 5
       /\ (last.signal.edge_pct >= 40 /\ last.signal.edge_pct < 80)
             => last.stack_multiplier = 3

\* The tickers on which only lock-in signals have been executed.
LockinOnly(t) ==
    IF paper_mode
    THEN \A i \in RowIds : paper_trades[i].market_ticker = t
                           => paper_trades[i].signal_source = "metar_lockin"
    ELSE \A i \in 1..Len(journal) : journal[i].ticker = t
                                    => journal[i].signal_source = "metar_lockin"

\* C7: the contracts held on a ticker through executed lock-in signals
\* never exceed 25, paper or live.
C7_StackCap ==
    \A t \in Tickers : LockinOnly(t) => Held(t) <= MAX_STACK

----------------------------------------------------------------------------
(* Profit rule of the orchestrator: WeatherBot.check_80pct_rule *)

MaxChecks == 2      \* calls of check_80pct_rule in one run

PROFIT_TRIGGER_PCT == 10

\* Live: what the loop adds to total_cost and total_value for one position;
\* a position whose market cannot be read is skipped.
LiveRuleTerm(pos, mkt) ==
    IF (pos.position = 0 /\ pos.market_exposure = 0) \/ mkt = Failure
    THEN [cost |-> 0, value |-> 0]
    ELSE IF pos.position < 0
    THEN [cost |-> mkt.no_ask * Abs(pos.position), value |-> pos.market_exposure]
    ELSE [cost |-> pos.market_exposure, value |-> mkt.yes_bid * pos.position]

\* Paper: the enriched entry of get_paper_portfolio_value.
PaperRuleTerm(t, mkts) ==
    IF PaperEnriched(t, mkts).listed
    THEN [cost |-> PaperEnriched(t, mkts).market_exposure,
          value |-> PaperEnriched(t, mkts).current_value]
    ELSE [cost |-> 0, value |-> 0]

RuleTerm(t, mkts) ==
    IF paper_mode THEN PaperRuleTerm(t, mkts) ELSE LiveRuleTerm(positions[t], mkts[t])

\* cash, total_cost, total_value, unrealized_pnl, account_value and
\* trigger_amount = int(account_value * PROFIT_TRIGGER_PCT / 100)
RuleSums(mkts) ==
    LET c == IF paper_mode THEN get_paper_balance ELSE cash
        total_cost == SumOver([t \in Tickers |-> RuleTerm(t, mkts).cost], Tickers)
        total_value == SumOver([t \in Tickers |-> RuleTerm(t, mkts).value], Tickers)
    IN  [cash |-> c, total_cost |-> total_cost, total_value |-> total_value,
         unrealized_pnl |-> total_value - total_cost,
         account_value |-> c + total_value,
         trigger_amount |-> IntDiv((c + total_value) * PROFIT_TRIGGER_PCT, 100)]

\* unrealized_pnl >= trigger_amount and trigger_amount > 0
RuleFires(mkts) ==
    /\ RuleSums(mkts).unrealized_pnl >= RuleSums(mkts).trigger_amount
    /\ RuleSums(mkts).trigger_amount > 0

\* The positions the rule hands to _liquidate_winning_positions.
RulePositions(mkts) ==
    IF paper_mode THEN [t \in Tickers |-> PaperEnriched(t, mkts)] ELSE positions

\* One call of check_80pct_rule.  query_ok: the balance and positions (live)
\* or the paper portfolio (paper) can be read; a read that raises is caught
\* and the call returns False.
\* The latest ET day on which the rule fired, as the calls so far saw it:
\* <<>> or <<day>>.
RuleDay ==
    IF last.op \in {"check_80pct_rule", "check_risk_limits"} THEN last.rule_day
    ELSE <<>>

RuleEffect(query_ok, mkts) ==
    LET fires == query_ok /\ RuleFires(mkts)
           issued == IF fires /\ ~paper_mode
                     THEN LiveSweep("_liquidate_winning_positions", 1, positions, mkts)
                     ELSE <<>>
           after == IF fires /\ paper_mode
                    THEN PaperSweep("_liquidate_winning_positions", 1,
                                    RulePositions(mkts), mkts,
                                    [trades |-> paper_trades, balance |-> paper_balance])
                    ELSE [trades |-> paper_trades, balance |-> paper_balance]
       IN /\ triggered' = (triggered \/ fires)
          /\ orders' = orders \o BookAll(issued)
          /\ paper_trades' = after.trades
          /\ paper_balance' = after.balance
          /\ last' = [op |-> "check_80pct_rule", query_ok |-> query_ok,
                      cash |-> RuleSums(mkts).cash,
                      positions |-> RulePositions(mkts), mkts |-> mkts,
                      result |-> fires, issued |-> issued,
                      liquidated |-> (issued # <<>> \/ after.trades # paper_trades),
                      flag_before |-> triggered, flag_after |-> (triggered \/ fires),
                      rule_day |-> IF fires THEN <<DateET(now_utc)>> ELSE RuleDay,
                      at |-> Stamp]

Check80pctRule(query_ok, mkts) ==
    /\ seq < MaxChecks
    /\ seq' = seq + 1
    /\ RuleEffect(query_ok, mkts)
    /\ UNCHANGED <<paper_mode, config, cash, positions, journal, now_utc, cycle, profit_rule_triggered, weatherVars, procVars>>

\* Quotes of the rule's markets: a bracket that is losing (YES at 90), one
\* that has all but settled NO (YES at 1), one that YES holders win.
RuleQuotes ==
    {Quote(90, 9, 11, "active"), Quote(1, 98, 99, "active"),
     Quote(45, 54, 56, "active"), Failure}

RuleMarkets == {[t \in Tickers |-> IF t = "T1" THEN a ELSE b] : a, b \in RuleQuotes}

\* Live accounts when the rule runs: cash and the two positions.
RuleAccounts ==
    {[cash |-> 500, T1 |-> Position(-10, 600), T2 |-> Position(0, 0)],
     [cash |-> 500, T1 |-> Position(-10, 100), T2 |-> Position(-10, 100)],
     [cash |-> 10000, T1 |-> Position(10, 300), T2 |-> Position(-10, 600)]}

\* Paper books when the rule runs.
RuleBooks ==
    {<<PaperBookRow("T1", "no", 10, 10), PaperBookRow("T2", "no", 10, 10)>>,
     <<PaperBookRow("T1", "yes", 30, 10), PaperBookRow("T2", "no", 60, 8)>>}

InitRule ==
    /\ paper_mode \in BOOLEAN
    /\ config = [attr |-> FALSE, kill_switch |-> FALSE]
    /\ triggered = FALSE
    /\ IF paper_mode
       THEN /\ paper_trades \in RuleBooks
            /\ positions = NoPositions
            /\ cash = 0
       ELSE /\ paper_trades = <<>>
            /\ \E a \in RuleAccounts :
                  /\ cash = a.cash
                  /\ positions = [t \in Tickers |-> IF t = "T1" THEN a.T1 ELSE a.T2]
    /\ paper_balance = <<[balance_cents |-> PAPER_BANKROLL_START,
                          updated_at |-> [h |-> 12, n |-> -1]]>>
                       \o BookLedger(paper_trades, PAPER_BANKROLL_START)
    /\ orders = <<>>
    /\ journal = <<>>
    /\ now_utc = 12
    /\ seq = 0
    /\ last = NoCall
    /\ cycle = NoCycle
    /\ profit_rule_triggered = FALSE
    /\ extremes = NoExtremes
    /\ temp_state = NoState
    /\ updaters = NoUpdaters
    /\ writers = NoWriters
    /\ monitor = NoMonitor

NextRule ==
    \/ \E query_ok \in BOOLEAN, mkts \in RuleMarkets :
          /\ query_ok \/ mkts = CHOOSE m \in RuleMarkets : TRUE
          /\ Check80pctRule(query_ok, mkts)
    \/ \E i \in 1..Len(orders) : ExchangeFill(i)

SpecRule == InitRule /\ [][NextRule]_vars

\* The unrealized P&L and the account value the rule is stated on: every
\* open position marked to the market's quote.
MarkedValue(pos, mkts) ==
    SumOver([t \in Tickers |-> IF pos[t].position # 0 THEN CurrentValue(pos[t], mkts[t])
                               ELSE 0], Tickers)

MarkedCost(pos) ==
    SumOver([t \in Tickers |-> IF pos[t].position # 0 THEN pos[t].market_exposure
                               ELSE 0], Tickers)

AllPriced(pos, mkts) == \A t \in Tickers : pos[t].position = 0 \/ mkts[t] # Failure

\* C11: when every query is answered, check_80pct_rule returns True exactly
\* when the unrealized P&L of the open positions, marked to market, is at
\* least 10% (in whole cents) of cash plus their marked value; then it sets
\* the profit-triggered flag; otherwise it places no order and leaves the
\* flag as it was.
C11_ProfitRule ==
    (last.op = "check_80pct_rule" /\ last.query_ok /\ AllPriced(last.positions, last.mkts))
    => LET value == MarkedValue(last.positions, last.mkts)
           pnl == value - MarkedCost(last.positions)
           due == IntDiv((last.cash + value) * PROFIT_TRIGGER_PCT, 100)
       IN /\ last.result = (pnl >= due /\ due > 0)
          /\ last.result => last.flag_after
          /\ ~last.result => (last.issued = <<>> /\ ~last.liquidated
                               /\ last.flag_after = last.flag_before)

----------------------------------------------------------------------------
(* One cycle of the orchestrator: WeatherBot.run_cycle, statement by        *)
(* statement.  cycle.pc is the step about to run.                          *)

MaxCycles == 1      \* cycles started in one run

MAX_PER_CYCLE == 3
max_brackets_per_event == 2

\* CONFIG["trading_windows"], hours ET
trading_windows ==
    [high_temp |-> [start_hour_et |-> 10, end_hour_et |-> 17],
     low_temp |-> [start_hour_et |-> 20, end_hour_et |-> 8]]

\* (now_utc.hour - 5) % 24
hour_et == ((now_utc % 24) - 5) % 24

\* The window type is_trading_window answers, "none" outside both windows.
is_trading_window ==
    IF /\ trading_windows.high_temp.start_hour_et <= hour_et
       /\ hour_et <= trading_windows.high_temp.end_hour_et
    THEN "high"
    ELSE IF \/ trading_windows.low_temp.start_hour_et <= hour_et
            \/ hour_et <= trading_windows.low_temp.end_hour_et
    THEN "low"
    ELSE "none"

\* tomorrow_str in s.event_ticker: the generator builds the event ticker of
\* a signal from the date it sets is_tomorrow by.
DatedTomorrow(s) == s.is_tomorrow

\* [s for s in all_signals if s.market_type == window_type or tomorrow_str in s.event_ticker]
RECURSIVE WindowFilter(_, _)
WindowFilter(sigs, window_type) ==
    IF sigs = <<>> THEN <<>>
    ELSE (IF Head(sigs).market_type = window_type \/ DatedTomorrow(Head(sigs))
          THEN <<Head(sigs)>> ELSE <<>>)
         \o WindowFilter(Tail(sigs), window_type)

\* The steps of a cycle, in program order.
CycleSteps ==
    <<"sync", "log", "rule", "take_profit", "cut", "collect", "metar",
      "window", "signals", "loop">>

\* A step that moves the cycle and touches nothing else.
CycleOnly(c) ==
    /\ cycle' = c
    /\ UNCHANGED <<botVars, paperVars, exchVars, journal, now_utc, seq, last, profit_rule_triggered, weatherVars, procVars>>

Ran(step, next) == [cycle EXCEPT !.pc = next, !.ran = @ \cup {step}]

Exit(step, why) == [cycle EXCEPT !.pc = "done", !.ran = @ \cup {step}, !.exit = why]

\* run_cycle is entered.  fail: the step whose work raises in this cycle;
\* mkts: the quotes of this cycle; lockin, model: what the two generators
\* return if they are called.
CycleStart(fail, mkts, lockin, model) ==
    /\ cycle.pc \in {"idle", "done"}
    /\ cycle.n < MaxCycles
    /\ CycleOnly([NoCycle EXCEPT !.pc = "sync", !.n = cycle.n + 1, !.fail = fail,
                                 !.seq0 = seq,
                                 !.mkts = mkts, !.lockin = lockin, !.model = model,
                                 !.event_bracket_count = [e \in {} |-> 0]])

\* Step 0: sync_settlements, live only; it catches what it raises.
CycleSync ==
    /\ cycle.pc = "sync"
    /\ CycleOnly(IF paper_mode THEN [cycle EXCEPT !.pc = "log"] ELSE Ran("sync", "log"))

\* Step 0a: log_portfolio_status; it catches what it raises.
CycleLog ==
    /\ cycle.pc = "log"
    /\ CycleOnly(Ran("log", "rule"))

\* Step 0b: check_80pct_rule; it catches what it raises.
CycleRule ==
    /\ cycle.pc = "rule"
    /\ RuleEffect(cycle.fail # "rule", cycle.mkts)
    /\ cycle' = Ran("rule", "take_profit")
    /\ seq' = seq + 1
    /\ UNCHANGED <<paper_mode, config, cash, positions, journal, now_utc, profit_rule_triggered, weatherVars, procVars>>

\* Steps 0c and 0d: check_take_profits and cut_losers.  Live, a positions
\* query that raises is caught; paper, get_paper_positions is called outside
\* any try and what it raises leaves run_cycle.
CycleSweep(step, path, next) ==
    /\ cycle.pc = step
    /\ IF paper_mode /\ cycle.fail = step
       THEN CycleOnly(Exit(step, "raised"))
       ELSE /\ SweepEffect(path, cycle.fail # step, cycle.mkts)
            /\ cycle' = Ran(step, next)
            /\ seq' = seq + 1
            /\ UNCHANGED <<botVars, cash, positions, journal, now_utc, profit_rule_triggered, weatherVars, procVars>>

CycleTakeProfits == CycleSweep("take_profit", "check_take_profits", "cut")

CycleCutLosers == CycleSweep("cut", "cut_losers", "collect")

\* Step 1: collect_all; on an exception run_cycle returns.
CycleCollect ==
    /\ cycle.pc = "collect"
    /\ CycleOnly(IF cycle.fail = "collect" THEN Exit("collect", "collect_failed")
                 ELSE Ran("collect", "metar"))

\* Step 1b: update_all_stations; an exception is logged.
CycleMetar ==
    /\ cycle.pc = "metar"
    /\ CycleOnly(Ran("metar", "window"))

\* Step 2: outside both windows run_cycle returns.
CycleWindow ==
    /\ cycle.pc = "window"
    /\ CycleOnly(IF is_trading_window = "none"
                 THEN [Exit("window", "outside_window") EXCEPT !.window_type = "none"]
                 ELSE [Ran("window", "signals") EXCEPT !.window_type = is_trading_window])

\* Steps 3, 3b and the head of step 4: the two generators (a generator that
\* raises gives no signal), the window filter, the return on no signal and
\* the return on today_count >= max_trades_per_day.
CycleSignals ==
    /\ cycle.pc = "signals"
    /\ LET model_signals == IF cycle.fail = "model" THEN <<>> ELSE cycle.model
           lockin_signals == IF cycle.fail = "lockin" THEN <<>> ELSE cycle.lockin
           window_signals == WindowFilter(lockin_signals \o model_signals,
                                          cycle.window_type)
           today_count == IF paper_mode THEN get_todays_trade_count
                          ELSE _get_live_trade_count(ApiOk)
           c == [cycle EXCEPT !.window_signals = window_signals,
                              !.today_count = today_count]
       IN CycleOnly(
            IF window_signals = <<>>
            THEN [c EXCEPT !.pc = "done", !.ran = @ \cup {"signals"}, !.exit = "no_signals"]
            ELSE IF today_count >= max_trades_per_day
            THEN [c EXCEPT !.pc = "done", !.ran = @ \cup {"signals"}, !.exit = "daily_limit"]
            ELSE [c EXCEPT !.pc = "loop", !.ran = @ \cup {"signals"}, !.idx = 1])

EventCount(evt) ==
    IF evt \in DOMAIN cycle.event_bracket_count THEN cycle.event_bracket_count[evt] ELSE 0

\* A cycle that counts to 4.
CycleFull_At4 == cycle.executed >= MAX_PER_CYCLE + 1

\* if executed >= 3: break
CycleFull == cycle.executed >= MAX_PER_CYCLE

\* Step 4, one turn of the loop over window_signals: break at 3 executed,
\* skip the signal of an event that has its brackets, else execute_signal;
\* what execute_signal raises leaves run_cycle.
CycleLoop ==
    /\ cycle.pc = "loop"
    /\ IF cycle.idx > Len(cycle.window_signals) \/ CycleFull
       THEN CycleOnly(Exit("loop", "completed"))
       ELSE LET signal == cycle.window_signals[cycle.idx]
                evt == signal.event_ticker
                gate == ExecGate(signal, ApiOk, cycle.mkts, TRUE, 0)
            IN  IF EventCount(evt) >= max_brackets_per_event
                THEN CycleOnly([cycle EXCEPT !.idx = @ + 1])
                ELSE /\ ExecEffect(signal, ApiOk, cycle.mkts, TRUE, 0)
                     /\ seq' = seq + 1
                     /\ UNCHANGED <<botVars, cash, positions, now_utc, profit_rule_triggered, weatherVars, procVars>>
                     /\ cycle' =
                          IF gate = "AttributeError"
                          THEN [Exit("loop", "raised") EXCEPT !.passed = @ \cup {cycle.idx}]
                          ELSE IF gate = "ok"
                          THEN [cycle EXCEPT !.idx = @ + 1, !.passed = @ \cup {cycle.idx},
                                             !.executed = @ + 1,
                                             !.event_bracket_count =
                                                 [e \in DOMAIN @ \cup {evt} |->
                                                     IF e = evt THEN EventCount(evt) + 1
                                                     ELSE @[e]]]
                          ELSE [cycle EXCEPT !.idx = @ + 1, !.passed = @ \cup {cycle.idx}]

\* Signals of a cycle.  T1 is a bracket of today's high event E1; T2 is a
\* bracket of the event E2, whose type and date the signal tells.
EventOf(t) == IF t = "T1" THEN "E1" ELSE "E2"

LockinNo(t) ==
    [MkSignal(t, "high", "no", 10, 90, 98, 61, 61, FALSE, 0, "metar_lockin")
        EXCEPT !.event_ticker = EventOf(t)]

LockinYes(t) ==
    [MkSignal(t, "high", "yes", 60, 60, 65, 61, 61, FALSE, 0, "metar_lockin")
        EXCEPT !.event_ticker = EventOf(t)]

ModelNo(t, mtype, tomorrow) ==
    [MkSignal(t, mtype, "no", 50, 50, 30, 40, 42, tomorrow, 5, "model")
        EXCEPT !.event_ticker = EventOf(t)]

\* What the generators can return: lock-in signals first, model signals next.
CycleOffers ==
    {[lockin |-> <<LockinNo("T1"), LockinYes("T1")>>,
      model |-> <<ModelNo("T1", "high", FALSE), ModelNo("T2", "low", TRUE)>>],
     [lockin |-> <<LockinNo("T1"), LockinYes("T1"), LockinNo("T2"), LockinYes("T2")>>,
      model |-> <<ModelNo("T1", "high", FALSE), ModelNo("T2", "high", FALSE)>>],
     [lockin |-> <<>>,
      model |-> <<ModelNo("T1", "high", FALSE), ModelNo("T2", "low", FALSE)>>]}

CycleMarkets ==
    {[t \in Tickers |-> Quote(40, 59, 61, "active")],
     [t \in Tickers |-> Quote(1, 98, 99, "active")]}

\* The plain cycle, and the cycles that depart from it in one input.
PlainCycle ==
    [fail |-> "none", mkts |-> [t \in Tickers |-> Quote(40, 59, 61, "active")],
     offer |-> [lockin |-> <<LockinNo("T1"), LockinYes("T1")>>,
                model |-> <<ModelNo("T1", "high", FALSE), ModelNo("T2", "low", TRUE)>>]]

CycleInputs ==
    {[PlainCycle EXCEPT !.fail = CycleSteps[k]] : k \in 1..Len(CycleSteps)}
    \cup {[PlainCycle EXCEPT !.fail = f] : f \in {"model", "lockin"}}
    \cup {[PlainCycle EXCEPT !.mkts = m] : m \in CycleMarkets}
    \cup {[PlainCycle EXCEPT !.offer = o] : o \in CycleOffers}

\* UTC hours at which a cycle runs: 12 ET (high window), 18 ET (neither
\* window), 21 ET (low window) of the same ET day.
CycleHours == {17, 23, 26}

\* The paper book of a busy day: n trades of brackets that have settled as
\* losses today, and two lock-in NO positions still open.
RECURSIVE LostRows(_)
LostRows(n) ==
    IF n = 0 THEN <<>>
    ELSE Append(LostRows(n - 1),
                [market_ticker |-> "T0", side |-> "no", price_cents |-> 9,
                 contracts |-> 10, settled |-> 1, settlement_result |-> "loss",
                 pnl_cents |-> -90, signal_source |-> "model",
                 created_at |-> [h |-> 12, n |-> -n], settled_at |-> [h |-> 12, n |-> -n]])

BusyDayBook ==
    LostRows(max_trades_per_day - 2)
    \o <<PaperBookRow("T1", "no", 10, 10), PaperBookRow("T2", "no", 10, 10)>>

InitCycle ==
    /\ paper_mode \in BOOLEAN
    /\ config = [attr |-> FALSE, kill_switch |-> FALSE]
    /\ triggered = FALSE
    /\ paper_trades \in IF paper_mode THEN {<<>>, BusyDayBook} ELSE {<<>>}
    /\ paper_balance = <<[balance_cents |-> PAPER_BANKROLL_START,
                          updated_at |-> [h |-> 12, n |-> -1]]>>
                       \o BookLedger(paper_trades, PAPER_BANKROLL_START)
    /\ cash = IF paper_mode THEN 0 ELSE 10000
    /\ positions = NoPositions
    /\ orders = <<>>
    /\ journal = <<>>
    /\ now_utc \in CycleHours
    /\ seq = 0
    /\ last = NoCall
    /\ cycle = NoCycle
    /\ profit_rule_triggered = FALSE
    /\ extremes = NoExtremes
    /\ temp_state = NoState
    /\ updaters = NoUpdaters
    /\ writers = NoWriters
    /\ monitor = NoMonitor

NextCycle ==
    \/ cycle.pc = "idle" /\ AssignConfig
    \/ \E in \in CycleInputs : CycleStart(in.fail, in.mkts, in.offer.lockin, in.offer.model)
    \/ CycleSync
    \/ CycleLog
    \/ CycleRule
    \/ CycleTakeProfits
    \/ CycleCutLosers
    \/ CycleCollect
    \/ CycleMetar
    \/ CycleWindow
    \/ CycleSignals
    \/ CycleLoop
    \/ \E i \in 1..Len(orders) : ExchangeFill(i)

SpecCycle == InitCycle /\ [][NextCycle]_vars

\* Whether the hour lies inside the window of a market type.
HourInside(mtype) ==
    IF mtype = "high"
    THEN /\ trading_windows.high_temp.start_hour_et <= hour_et
         /\ hour_et <= trading_windows.high_temp.end_hour_et
    ELSE \/ trading_windows.low_temp.start_hour_et <= hour_et
         \/ hour_et <= trading_windows.low_temp.end_hour_et

\* The signals the window filter has let through to the execution loop.
Eligible(s) == \E i \in 1..Len(cycle.window_signals) : cycle.window_signals[i] = s

\* The trades of the current cycle: paper rows, or journalled live orders.
CycleBuys ==
    IF paper_mode THEN {i \in RowIds : paper_trades[i].created_at.n >= cycle.seq0}
    ELSE {i \in 1..Len(journal) : journal[i].created_at.n >= cycle.seq0}

BuyTicker(i) == IF paper_mode THEN paper_trades[i].market_ticker ELSE journal[i].ticker

\* A signal that every gate of execute_signal other than the daily trade
\* count lets through.
OtherGatesPass(s) ==
    LET gate == ExecGate(s, ApiOk, cycle.mkts, TRUE, 0) IN
    \/ gate \in {"ok", "paper_max_trades"}
    \/ gate = "risk" /\ RiskGate(s, ApiOk, cycle.mkts) = "max_trades"

\* C12: in a cycle in which the profit rule has triggered, with today's
\* trade count at or above max_trades_per_day and below max_trades_per_day
\* + 10, a window signal that passes every other gate is executed.
C12_BonusTrades ==
    (/\ cycle.pc = "done" /\ "signals" \in cycle.ran
     /\ triggered
     /\ cycle.today_count >= max_trades_per_day
     /\ cycle.today_count < max_trades_per_day + 10
     /\ \E i \in 1..Len(cycle.window_signals) : OtherGatesPass(cycle.window_signals[i]))
    => CycleBuys # {}

\* C13: in a cycle that reaches the window check, every signal dated
\* tomorrow that the generators have to offer is passed on to the execution
\* loop whatever the ET hour, and a signal dated today is passed on only
\* when the hour lies inside the window of its market type.
C13_Windowing ==
    (cycle.pc = "done" /\ "window" \in cycle.ran /\ cycle.fail \notin {"model", "lockin"})
    => \A i \in 1..Len(cycle.lockin \o cycle.model) :
          LET s == (cycle.lockin \o cycle.model)[i] IN
          /\ DatedTomorrow(s) => Eligible(s)
          /\ (~DatedTomorrow(s) /\ Eligible(s)) => HourInside(s.market_type)

\* C16: a cycle executes at most 3 signals (paper rows recorded, live
\* orders placed), and at most max_brackets_per_event of them belong to one
\* event.
C16_CycleCaps ==
    /\ Cardinality(CycleBuys) <= 3
    /\ \A e \in {"E1", "E2"} :
          Cardinality({i \in CycleBuys : EventOf(BuyTicker(i)) = e})
              <= max_brackets_per_event

\* A cycle has executed 3 signals, two of one event, and has left the
\* fourth signal of its list untouched.
C16_Witness ==
    /\ cycle.pc = "done"
    /\ Cardinality(CycleBuys) = 3
    /\ Cardinality({i \in CycleBuys : EventOf(BuyTicker(i)) = "E1"}) = 2
    /\ Len(cycle.window_signals) >= 4
    /\ 4 \notin cycle.passed

\* C17: a cycle in which one step fails still runs every later step: it is
\* not left by an exception, it reaches the window check, and inside a
\* window it reaches the signal generation.
C17_StepsIsolated ==
    cycle.pc = "done"
    => /\ cycle.exit # "raised"
       /\ "window" \in cycle.ran
       /\ cycle.window_type # "none" => "signals" \in cycle.ran

----------------------------------------------------------------------------
(* More about WeatherBot.execute_signal *)

\* The signals of ExecSignals that buy YES on T1, and one that buys NO.
YesSignals ==
    {s \in ExecSignals : s.side = "yes" /\ s.market_ticker = "T1"}
    \cup {MkSignal("T1", "high", "no", 50, 50, 30, 40, 42, FALSE, 5, "model")}

NextYes ==
    \/ AssignConfig
    \/ \E signal \in YesSignals, in \in ExecInputs :
          ExecuteSignal(signal, in.api, in.mkts, in.temp_state_ok, in.jitter)
    \/ \E i \in 1..Len(orders) : ExchangeFill(i)
    \/ NextDay

SpecYes == Init /\ [][NextYes]_vars

\* C14: execute_signal places or records nothing for a YES signal whose
\* signal_source is not metar_lockin, so every YES trade on the books is a
\* lock-in trade; a YES signal with signal_source = metar_lockin is never
\* stopped by the YES block.
C14_NoModelYes ==
    /\ (last.op = "execute_signal" /\ last.signal.side = "yes") =>
          IF last.signal.signal_source = "metar_lockin"
          THEN last.gate # "yes_block"
          ELSE last.result # "placed" /\ last.contracts = 0
    /\ \A i \in RowIds : paper_trades[i].side = "yes"
                            => paper_trades[i].signal_source = "metar_lockin"
    /\ \A i \in 1..Len(journal) : journal[i].side = "yes"
                                     => journal[i].signal_source = "metar_lockin"
    /\ \A i \in 1..Len(orders) : (orders[i].action = "buy" /\ orders[i].side = "yes")
          => \E j \in 1..Len(journal) :
                /\ journal[j].ticker = orders[i].ticker
                /\ journal[j].side = "yes"
                /\ journal[j].signal_source = "metar_lockin"

\* A model YES signal has been stopped by the YES block while a lock-in YES
\* trade stands on the books.
C14_Witness ==
    /\ last.op = "execute_signal"
    /\ last.signal.side = "yes"
    /\ last.signal.signal_source = "model"
    /\ last.gate = "yes_block"
    /\ \/ \E i \in RowIds : paper_trades[i].side = "yes"
       \/ \E i \in 1..Len(journal) : journal[i].side = "yes"

\* Signals on cheap NO contracts: a lock-in NO at 3 cents (YES at 97) and at
\* 10 cents (YES at 90).
CapSignals ==
    {MkSignal(t, "high", "no", 3, 97, 98, 61, 61, FALSE, 0, "metar_lockin") : t \in Tickers}
    \cup {MkSignal(t, "high", "no", 10, 90, 98, 61, 61, FALSE, 0, "metar_lockin") :
            t \in Tickers}

NextCap ==
    \/ AssignConfig
    \/ \E signal \in CapSignals, in \in ExecInputs :
          ExecuteSignal(signal, in.api, in.mkts, in.temp_state_ok, in.jitter)
    \/ \E i \in 1..Len(orders) : ExchangeFill(i)
    \/ NextDay

SpecCap == Init /\ [][NextCap]_vars

\* C15: the contracts held on a ticker never exceed
\* max_contracts_per_ticker, paper or live.
C15_TickerCap ==
    \A t \in Tickers : Held(t) <= max_contracts_per_ticker

----------------------------------------------------------------------------
(* price_monitor.py: dead positions *)
(* Temperatures are in tenths of a degree Fahrenheit, the resolution of    *)
(* get_metar_temp; bracket bounds and thresholds are whole degrees.        *)

Deg(d) == d * 10

\* parse_position_bracket: what it returns for a B36.5 and for a T40 ticker
\* of a high and of a low market
BracketInfo(mtype) == [kind |-> "bracket", type |-> mtype, low |-> 36, high |-> 37]
ThresholdInfo(mtype) == [kind |-> "threshold", type |-> mtype, threshold |-> 40]

DeadHighBracketYes_NoMargin(low, high, current_temp, h) ==
    \/ current_temp > Deg(high) /\ h >= 12
    \/ current_temp < Deg(low - 5) /\ h >= 15

\* YES on a high bracket
DeadHighBracketYes(low, high, current_temp, h) ==
    \/ current_temp > Deg(high + 2) /\ h >= 12
    \/ current_temp < Deg(low - 5) /\ h >= 15

\* is_position_dead at hour h of the day in ET; the reason text is left out
is_position_dead(bracket_info, current_temp, side, h) ==
    IF bracket_info.kind = "bracket"
    THEN LET low == bracket_info.low
             high == bracket_info.high
             mtype == bracket_info.type
             inside == Deg(low) <= current_temp /\ current_temp <= Deg(high)
         IN  CASE mtype = "high" /\ side = "yes" ->
                    DeadHighBracketYes(low, high, current_temp, h)
               [] mtype = "high" /\ side = "no" ->
                    inside /\ 13 <= h /\ h <= 16
               [] mtype = "low" /\ side = "yes" ->
                    \/ current_temp < Deg(low - 3) /\ h >= 4
                    \/ current_temp > Deg(high + 4) /\ h >= 2
               [] mtype = "low" /\ side = "no" ->
                    \/ inside /\ 4 <= h /\ h <= 7
                    \/ inside /\ h >= 2
               [] OTHER -> FALSE
    ELSE IF bracket_info.kind = "threshold"
    THEN LET threshold == bracket_info.threshold
             mtype == bracket_info.type
         IN  CASE mtype = "high" /\ side = "yes" ->
                    current_temp < Deg(threshold - 5) /\ h >= 15
               [] mtype = "low" /\ side = "yes" ->
                    current_temp < Deg(threshold - 1) /\ h >= 3
               [] mtype = "low" /\ side = "no" ->
                    \/ current_temp > Deg(threshold + 3) /\ 5 <= h /\ h <= 8
                    \/ /\ current_temp > Deg(threshold)
                       /\ current_temp < Deg(threshold + 10)
                       /\ 4 <= h /\ h <= 7
               [] mtype = "high" /\ side = "no" ->
                    current_temp > Deg(threshold + 2) /\ h >= 12
               [] OTHER -> FALSE
    ELSE FALSE

\* One call of is_position_dead; it reads the clock
IsPositionDead(bracket_info, current_temp, side) ==
    /\ last' = [op |-> "is_position_dead", bracket_info |-> bracket_info,
                current_temp |-> current_temp, side |-> side, hour_et |-> hour_et,
                result |-> is_position_dead(bracket_info, current_temp, side, hour_et)]
    /\ UNCHANGED <<botVars, paperVars, exchVars, journal, now_utc, seq, cycle, profit_rule_triggered, weatherVars, procVars>>

DeadInfos ==
    {BracketInfo(m) : m \in {"high", "low"}} \cup {ThresholdInfo(m) : m \in {"high", "low"}}

\* Readings on either side of every comparison of the table, for the
\* bracket [36, 37] and the threshold 40
DeadTemps ==
    {309, 310, 329, 330, 359, 360, 365, 370, 371, 389, 390, 391, 400, 401,
     410, 411, 420, 421, 430, 431, 499, 500, 349, 350}

InitDead ==
    /\ paper_mode \in BOOLEAN
    /\ config = [attr |-> FALSE, kill_switch |-> FALSE]
    /\ triggered = FALSE
    /\ paper_trades = <<>>
    /\ paper_balance = <<>>
    /\ cash = 0
    /\ positions = NoPositions
    /\ orders = <<>>
    /\ journal = <<>>
    /\ now_utc \in 0..23
    /\ seq = 0
    /\ last = NoCall
    /\ cycle = NoCycle
    /\ profit_rule_triggered = FALSE
    /\ extremes = NoExtremes
    /\ temp_state = NoState
    /\ updaters = NoUpdaters
    /\ writers = NoWriters
    /\ monitor = NoMonitor

NextDead ==
    \E bracket_info \in DeadInfos, current_temp \in DeadTemps, side \in Sides :
        IsPositionDead(bracket_info, current_temp, side)

SpecDead == InitDead /\ [][NextDead]_vars

\* The decision table of dead positions, one record per row: a position of
\* the row's market type, kind and side is dead when the reading is strictly
\* between gt and lt (tenths of a degree) at an hour of from..to.
Hot == 10000
Cold == -Hot
Row(mtype, kind, side, gt, lt, from, to) ==
    [type |-> mtype, kind |-> kind, side |-> side, gt |-> gt, lt |-> lt,
     from |-> from, to |-> to]

DeadTable(info) ==
    IF info.kind = "bracket"
    THEN LET floor == info.low
             cap == info.high
         IN  {Row("high", "bracket", "yes", Deg(cap + 2), Hot, 12, 23),
              Row("high", "bracket", "yes", Cold, Deg(floor - 5), 15, 23),
              Row("high", "bracket", "no", Deg(floor) - 1, Deg(cap) + 1, 13, 16),
              Row("low", "bracket", "yes", Cold, Deg(floor - 3), 4, 23),
              Row("low", "bracket", "yes", Deg(cap + 4), Hot, 2, 23),
              Row("low", "bracket", "no", Deg(floor) - 1, Deg(cap) + 1, 2, 23)}
    ELSE LET strike == info.threshold
         IN  {Row("high", "threshold", "yes", Cold, Deg(strike - 5), 15, 23),
              Row("low", "threshold", "yes", Cold, Deg(strike - 1), 3, 23),
              Row("low", "threshold", "no", Deg(strike + 3), Hot, 5, 8),
              Row("low", "threshold", "no", Deg(strike), Deg(strike + 10), 4, 7),
              Row("high", "threshold", "no", Deg(strike + 2), Hot, 12, 23)}

RowMatches(row, info, temp, side, h) ==
    /\ row.type = info.type
    /\ row.kind = info.kind
    /\ row.side = side
    /\ row.gt < temp /\ temp < row.lt
    /\ row.from <= h /\ h <= row.to

\* C20: is_position_dead is a function of market type, bracket kind, side,
\* the current temperature against the strike and the hour in ET: it says
\* dead exactly when some row of the decision table matches, and not dead
\* for every input that matches no row; YES on a high bracket [floor, cap]
\* is dead exactly when temp > cap + 2 at hour 12 or later, or
\* temp < floor - 5 at hour 15 or later.
C20_DeadTable ==
    last.op = "is_position_dead" =>
        LET info == last.bracket_info
            temp == last.current_temp
            h == last.hour_et
        IN  /\ last.result <=>
                  \E row \in DeadTable(info) : RowMatches(row, info, temp, last.side, h)
            /\ (info.kind = "bracket" /\ info.type = "high" /\ last.side = "yes")
                  => (last.result <=>
                        \/ temp > Deg(info.high + 2) /\ h >= 12
                        \/ temp < Deg(info.low - 5) /\ h >= 15)

\* A YES position on the high bracket [36, 37] has been found dead at
\* 39.1 degrees at noon ET, the first reading and the first hour of its row.
C20_Witness ==
    /\ last.op = "is_position_dead"
    /\ last.bracket_info = BracketInfo("high")
    /\ last.side = "yes"
    /\ last.current_temp = 391
    /\ last.hour_et = 12
    /\ last.result

----------------------------------------------------------------------------
(* price_monitor.py: PriceMonitor, the poller of the live account *)

MaxMonitorChecks == 2   \* calls of run_check in one run

\* The reading of get_metar_temp when the station does not answer
NoReading == -9999

\* get_open_positions: the positions with qty > 0, none when the request fails
get_open_positions(positions_ok) ==
    IF positions_ok
    THEN SelectSeq(TickerSeq, LAMBDA t : positions[t].position > 0)
    ELSE <<>>

\* check_80pct_rule: what one position adds to position_value
MonitorValue(t, mkts) ==
    IF mkts[t].ok THEN mkts[t].yes_bid * positions[t].position
    ELSE positions[t].market_exposure

RECURSIVE MonitorSum(_, _)
MonitorSum(open, f) ==
    IF open = <<>> THEN 0 ELSE f[Head(open)] + MonitorSum(Tail(open), f)

\* check_80pct_rule: its sums over the open positions
MonitorSums(open, mkts) ==
    LET position_value == MonitorSum(open, [t \in Tickers |-> MonitorValue(t, mkts)])
        total_cost == MonitorSum(open, [t \in Tickers |-> positions[t].market_exposure])
        total_value == cash + position_value
    IN  [position_value |-> position_value,
         total_value |-> total_value,
         unrealized_pnl |-> position_value - total_cost,
         trigger_amount |-> IntDiv(total_value * PROFIT_TRIGGER_PCT, 100)]

\* check_80pct_rule triggers: once per session, and only with a balance
MonitorRuleFires(open, balance_ok, mkts) ==
    /\ ~profit_rule_triggered
    /\ balance_ok
    /\ LET m == MonitorSums(open, mkts)
       IN  m.unrealized_pnl >= m.trigger_amount /\ m.trigger_amount > 0

\* check_80pct_rule: the orders that sell the winners (yes_bid > avg_cost)
RECURSIVE MonitorWinners(_, _, _)
MonitorWinners(open, mkts, order_ok) ==
    IF open = <<>> THEN <<>>
    ELSE LET t == Head(open)
             qty == positions[t].position
             sells == /\ mkts[t].ok
                      /\ mkts[t].yes_bid * qty > positions[t].market_exposure
                      /\ order_ok
         IN  (IF sells THEN <<CloseOrder(t, "yes", qty, mkts[t].yes_bid)>> ELSE <<>>)
             \o MonitorWinners(Tail(open), mkts, order_ok)

\* check_take_profit: the position has gained TAKE_PROFIT_PCT or more
MonitorTakeProfit(t, market_data) ==
    LET qty == positions[t].position
        exposure == positions[t].market_exposure
    IN  /\ market_data.status = "active"
        /\ market_data.yes_bid > 0
        /\ exposure > 0
        /\ (market_data.yes_bid * qty - exposure) * 100 >= take_profit_pct * exposure

\* parse_position_bracket of the two tickers: T1 is the bracket [36, 37] of
\* a high market, T2 the threshold 40 of a low market
MonitorBracket(t) == IF t = "T1" THEN BracketInfo("high") ELSE ThresholdInfo("low")

\* check_dead_position: position.get("market_outcome", "yes"), a key the
\* positions of the exchange do not carry
MonitorSide == "yes"

\* check_dead_position: the position is dead and can be sold at the bid
MonitorDead(t, market_data, current_temp) ==
    /\ current_temp # NoReading
    /\ is_position_dead(MonitorBracket(t), current_temp, MonitorSide, hour_et)
    /\ market_data.status = "active"
    /\ market_data.yes_bid > 0

\* run_check: the orders of the loop over the positions
RECURSIVE MonitorLoop(_, _, _, _)
MonitorLoop(open, mkts, current_temp, order_ok) ==
    IF open = <<>> THEN <<>>
    ELSE LET t == Head(open)
             market_data == mkts[t]
             sell == <<CloseOrder(t, "yes", positions[t].position, market_data.yes_bid)>>
             mine ==
                IF ~market_data.ok THEN <<>>
                ELSE IF MonitorTakeProfit(t, market_data) /\ order_ok THEN sell
                ELSE IF MonitorDead(t, market_data, current_temp) /\ order_ok THEN sell
                ELSE <<>>
         IN  mine \o MonitorLoop(Tail(open), mkts, current_temp, order_ok)

\* run_check.  When the profit rule triggers, its orders are sent and then
\* the log entry names profit_pct, which is not defined: the call ends with
\* NameError, which run() catches.
RunCheckEffect(positions_ok, balance_ok, mkts, current_temp, order_ok) ==
    LET open == get_open_positions(positions_ok)
        fires == open # <<>> /\ MonitorRuleFires(open, balance_ok, mkts)
        issued == IF open = <<>> THEN <<>>
                  ELSE IF fires THEN MonitorWinners(open, mkts, order_ok)
                  ELSE MonitorLoop(open, mkts, current_temp, order_ok)
    IN  /\ profit_rule_triggered' = (profit_rule_triggered \/ fires)
        /\ orders' = orders \o BookAll(issued)
        /\ last' = [op |-> "run_check", kill_switch |-> config.kill_switch,
                    positions |-> IF positions_ok THEN positions ELSE NoPositions,
                    tracked |-> open, rule |-> fires, issued |-> issued,
                    raised |-> fires, result |-> Len(open)]

RunCheck(positions_ok, balance_ok, mkts, current_temp, order_ok) ==
    /\ seq < MaxMonitorChecks
    /\ seq' = seq + 1
    /\ RunCheckEffect(positions_ok, balance_ok, mkts, current_temp, order_ok)
    /\ UNCHANGED <<botVars, paperVars, cash, positions, journal, now_utc, cycle, weatherVars, procVars>>

\* Answers of the exchange and of the station while the monitor polls
MonitorQuotes ==
    {Quote(40, 59, 61, "active"), Quote(60, 39, 41, "active"),
     Quote(90, 9, 11, "active"), Failure}
MonitorTemps == {NoReading, 365, 391}

\* Accounts the monitor starts on: a YES and a NO position, two YES
\* positions, a NO position alone
MonitorAccounts ==
    {[cash |-> 1000, T1 |-> Position(10, 400), T2 |-> Position(-10, 300)],
     [cash |-> 1000, T1 |-> Position(10, 400), T2 |-> Position(10, 500)],
     [cash |-> 1000, T1 |-> Position(0, 0), T2 |-> Position(-10, 300)]}

InitMonitor ==
    /\ paper_mode = FALSE
    /\ config \in {[attr |-> FALSE, kill_switch |-> k] : k \in BOOLEAN}
    /\ triggered = FALSE
    /\ paper_trades = <<>>
    /\ paper_balance = <<>>
    /\ \E a \in MonitorAccounts :
          /\ cash = a.cash
          /\ positions = [t \in Tickers |-> IF t = "T1" THEN a.T1 ELSE a.T2]
    /\ orders = <<>>
    /\ journal = <<>>
    /\ now_utc \in {17, 22}
    /\ seq = 0
    /\ last = NoCall
    /\ cycle = NoCycle
    /\ profit_rule_triggered = FALSE
    /\ extremes = NoExtremes
    /\ temp_state = NoState
    /\ updaters = NoUpdaters
    /\ writers = NoWriters
    /\ monitor = NoMonitor

NextMonitor ==
    \/ \E positions_ok \in BOOLEAN, balance_ok \in BOOLEAN, order_ok \in BOOLEAN,
          mkts \in [Tickers -> MonitorQuotes], current_temp \in MonitorTemps :
          RunCheck(positions_ok, balance_ok, mkts, current_temp, order_ok)
    \/ \E i \in 1..Len(orders) : ExchangeFill(i)

SpecMonitor == InitMonitor /\ [][NextMonitor]_vars

\* C18: while the kill switch is on, the monitor submits no order.
C18_MonitorKillSwitch ==
    /\ (last.op = "run_check" /\ last.kill_switch) => last.issued = <<>>
    /\ config.kill_switch => orders = <<>>

\* C19: the monitor does not skip NO positions: every position the exchange
\* reports with a negative quantity is among the positions run_check tracks.
C19_MonitorTracksNo ==
    last.op = "run_check" =>
        \A t \in Tickers :
            last.positions[t].position < 0
                => \E i \in 1..Len(last.tracked) : last.tracked[i] = t

----------------------------------------------------------------------------
(* metar_tracker.py and temp_tracker.py: running extremes of one station *)

MaxUpdates == 3     \* observations taken in one run

\* get_today_date_et and get_et_date
get_today_date_et == DateET(now_utc)

UpdatedRow_Overwrite(row, temp_f) ==
    IF row.present
    THEN [present |-> TRUE,
          running_high_f |-> temp_f,
          running_low_f |-> Min(row.running_low_f, temp_f),
          observation_count |-> row.observation_count + 1]
    ELSE [present |-> TRUE, running_high_f |-> temp_f, running_low_f |-> temp_f,
          observation_count |-> 1]

\* update_from_metar: the row written for a reading, from the row selected
UpdatedRow(row, temp_f) ==
    IF row.present
    THEN [present |-> TRUE,
          running_high_f |-> Max(row.running_high_f, temp_f),
          running_low_f |-> Min(row.running_low_f, temp_f),
          observation_count |-> row.observation_count + 1]
    ELSE [present |-> TRUE, running_high_f |-> temp_f, running_low_f |-> temp_f,
          observation_count |-> 1]

\* update_from_metar run by one process with nothing in between; without a
\* reading it returns False
UpdateFromMetar(metar_ok, temp_f) ==
    /\ seq < MaxUpdates
    /\ seq' = seq + 1
    /\ LET today_et == get_today_date_et
           row == extremes[today_et]
       IN  /\ extremes' = IF metar_ok
                          THEN [extremes EXCEPT ![today_et] = UpdatedRow(row, temp_f)]
                          ELSE extremes
           /\ last' = [op |-> "update_from_metar", temp_f |-> temp_f,
                       today_et |-> today_et, before |-> row, result |-> metar_ok]
    /\ UNCHANGED <<botVars, paperVars, exchVars, journal, now_utc, cycle,
                   profit_rule_triggered, temp_state, updaters, procVars>>

\* temp_tracker.update_city on the entry of one city
update_city(c, temp_f) ==
    [date |-> c.date, seen |-> TRUE,
     high |-> IF ~c.seen \/ temp_f > c.high THEN temp_f ELSE c.high,
     low |-> IF ~c.seen \/ temp_f < c.low THEN temp_f ELSE c.low]

\* temp_tracker.poll_all: a new day starts a new state; a reading updates
\* the city; the state is saved
PollAll(temp_ok, temp_f) ==
    /\ seq < MaxUpdates
    /\ seq' = seq + 1
    /\ LET today == get_today_date_et
           state == IF temp_state.date # today
                    THEN [NoState EXCEPT !.date = today] ELSE temp_state
       IN  /\ temp_state' = IF temp_ok THEN update_city(state, temp_f) ELSE state
           /\ last' = [op |-> "poll_all", temp_f |-> temp_f, today_et |-> today,
                       before |-> [present |-> state.seen, running_high_f |-> state.high,
                                   running_low_f |-> state.low, observation_count |-> 0],
                       result |-> temp_ok]
    /\ UNCHANGED <<botVars, paperVars, exchVars, journal, now_utc, cycle,
                   profit_rule_triggered, extremes, updaters, procVars>>

\* Readings of the station, in tenths of a degree
MetarTemps == {301, 355, 412}

InitExtremes ==
    /\ paper_mode = TRUE
    /\ config = [attr |-> FALSE, kill_switch |-> FALSE]
    /\ triggered = FALSE
    /\ paper_trades = <<>>
    /\ paper_balance = <<>>
    /\ cash = 0
    /\ positions = NoPositions
    /\ orders = <<>>
    /\ journal = <<>>
    /\ now_utc \in {0, 6}
    /\ seq = 0
    /\ last = NoCall
    /\ cycle = NoCycle
    /\ profit_rule_triggered = FALSE
    /\ extremes = NoExtremes
    /\ temp_state = NoState
    /\ updaters = NoUpdaters
    /\ writers = NoWriters
    /\ monitor = NoMonitor

NextExtremes ==
    \/ \E metar_ok \in BOOLEAN, temp_f \in MetarTemps : UpdateFromMetar(metar_ok, temp_f)
    \/ \E temp_ok \in BOOLEAN, temp_f \in MetarTemps : PollAll(temp_ok, temp_f)
    \/ Tick

SpecExtremes == InitExtremes /\ [][NextExtremes]_vars

\* The row of the last update as the table holds it now
RowNow == extremes[last.today_et]

\* C21: for one station and one ET day, under sequential updates: the first
\* observation t creates the row with high = low = t and count = 1; each
\* later one sets high to max(high, t), low to min(low, t) and adds 1 to the
\* count; the running high never decreases, the running low never increases
\* and low <= high in every state (metar_tracker's table and temp_tracker's
\* state alike, the latter without a count).
C21_RunningExtremes ==
    /\ \A d \in Dates : extremes[d].present =>
          /\ extremes[d].running_low_f <= extremes[d].running_high_f
          /\ extremes[d].observation_count >= 1
    /\ temp_state.seen => temp_state.low <= temp_state.high
    /\ (last.op = "update_from_metar" /\ last.result) =>
          IF last.before.present
          THEN /\ RowNow.running_high_f = Max(last.before.running_high_f, last.temp_f)
               /\ RowNow.running_low_f = Min(last.before.running_low_f, last.temp_f)
               /\ RowNow.observation_count = last.before.observation_count + 1
               /\ RowNow.running_high_f >= last.before.running_high_f
               /\ RowNow.running_low_f <= last.before.running_low_f
          ELSE /\ RowNow.running_high_f = last.temp_f
               /\ RowNow.running_low_f = last.temp_f
               /\ RowNow.observation_count = 1
    /\ (last.op = "update_from_metar" /\ ~last.result) => RowNow = last.before
    /\ (last.op = "poll_all" /\ last.result /\ temp_state.date = last.today_et) =>
          IF last.before.present
          THEN /\ temp_state.high = Max(last.before.running_high_f, last.temp_f)
               /\ temp_state.low = Min(last.before.running_low_f, last.temp_f)
          ELSE temp_state.high = last.temp_f /\ temp_state.low = last.temp_f

\* A third observation of a day has come in below the running high and
\* above the running low.
C21_Witness ==
    /\ last.op = "update_from_metar"
    /\ last.result
    /\ RowNow.observation_count = 3
    /\ RowNow.running_low_f < last.temp_f
    /\ last.temp_f < RowNow.running_high_f

----------------------------------------------------------------------------
(* update_from_metar run by two processes at once: the orchestrator's cycle *)
(* and metar_tracker.py started on its own share the table.                 *)

\* update_from_metar up to its SELECT: the reading, the date and the row
\* are now locals of process p.  Without a reading it returns False.
MetarSelect(p, metar_ok, temp_f) ==
    /\ seq < MaxUpdates
    /\ updaters[p].pc # "selected"
    /\ seq' = seq + 1
    /\ updaters' = [updaters EXCEPT ![p] =
                      IF metar_ok
                      THEN [pc |-> "selected", temp_f |-> temp_f,
                            today_et |-> get_today_date_et,
                            row |-> extremes[get_today_date_et]]
                      ELSE Idle]
    /\ last' = [op |-> "select", temp_f |-> temp_f, today_et |-> get_today_date_et,
                before |-> extremes[get_today_date_et], result |-> metar_ok]
    /\ UNCHANGED <<botVars, paperVars, exchVars, journal, now_utc, cycle,
                   profit_rule_triggered, extremes, temp_state, procVars>>

\* update_from_metar from its UPDATE or INSERT to the commit.  The values
\* written come from the row selected earlier; an INSERT for a date that has
\* a row by now breaks UNIQUE(station, date) and the call raises.
MetarWrite(p) ==
    /\ updaters[p].pc = "selected"
    /\ LET u == updaters[p]
           clash == ~u.row.present /\ extremes[u.today_et].present
       IN  /\ extremes' = IF clash THEN extremes
                          ELSE [extremes EXCEPT ![u.today_et] = UpdatedRow(u.row, u.temp_f)]
           /\ updaters' = [updaters EXCEPT ![p].pc = IF clash THEN "raised" ELSE "done"]
           /\ last' = [op |-> "update_from_metar", temp_f |-> u.temp_f,
                       today_et |-> u.today_et, before |-> extremes[u.today_et],
                       result |-> ~clash]
    /\ UNCHANGED <<botVars, paperVars, exchVars, journal, now_utc, seq, cycle,
                   profit_rule_triggered, temp_state, procVars>>

NextRace ==
    \/ \E p \in Updaters, metar_ok \in BOOLEAN, temp_f \in MetarTemps :
          MetarSelect(p, metar_ok, temp_f)
    \/ \E p \in Updaters : MetarWrite(p)
    \/ Tick

SpecRace == InitExtremes /\ [][NextRace]_vars

\* C30: with two processes inside update_from_metar for the same station
\* and ET day, their reads and writes interleaved, the stored running high
\* never decreases, the running low never increases, and no observation is
\* lost: every call ends with its reading inside [low, high] and counted.
C30_ConcurrentExtremes ==
    /\ (last.op = "update_from_metar" /\ last.before.present) =>
          /\ last.result
          /\ RowNow.running_high_f >= last.before.running_high_f
          /\ RowNow.running_low_f <= last.before.running_low_f
          /\ RowNow.observation_count = last.before.observation_count + 1
    /\ \A p \in Updaters : updaters[p].pc # "raised"
    /\ \A p \in Updaters : updaters[p].pc = "done" =>
          /\ extremes[updaters[p].today_et].running_high_f >= updaters[p].temp_f
          /\ extremes[updaters[p].today_et].running_low_f <= updaters[p].temp_f

----------------------------------------------------------------------------
(* The paper ledger under trades, closes and settlements *)

\* settle_paper_trade(trade_id, won): the two tables afterwards.  An unknown
\* id returns before any write.
SettlePaperTables(trade_id, won) ==
    IF trade_id \notin RowIds
    THEN [trades |-> paper_trades, balance |-> paper_balance]
    ELSE LET r == paper_trades[trade_id]
             pnl == IF won THEN (100 - r.price_cents) * r.contracts
                    ELSE -(r.price_cents * r.contracts)
             new_balance == IF won THEN get_paper_balance + 100 * r.contracts
                            ELSE get_paper_balance
         IN  [trades |-> [paper_trades EXCEPT ![trade_id] =
                            [r EXCEPT !.settled = 1,
                                      !.settlement_result = IF won THEN "WON" ELSE "LOST",
                                      !.pnl_cents = pnl, !.settled_at = Stamp]],
              balance |-> Append(paper_balance,
                                 [balance_cents |-> new_balance, updated_at |-> Stamp])]

SettlePaperTrade(trade_id, won) ==
    /\ seq < MaxCalls
    /\ LET after == SettlePaperTables(trade_id, won) IN
        /\ paper_trades' = after.trades
        /\ paper_balance' = after.balance
        /\ last' = [op |-> "settle_paper_trade", trade_id |-> trade_id, won |-> won,
                    at |-> Stamp]
    /\ seq' = seq + 1
    /\ UNCHANGED <<botVars, exchVars, journal, now_utc, cycle, profit_rule_triggered,
                   weatherVars, procVars>>

\* Signals whose cost is below, at and above the position limit and the
\* balance
LedgerSignals ==
    {MkSignal(t, "high", s, p, 100 - p, 30, 40, 42, FALSE, 5, "model") :
        t \in {"T1"}, s \in Sides, p \in {20, 50}}
LedgerContracts == {10, 11, 250}

NextLedger ==
    \/ \E s \in LedgerSignals, c \in LedgerContracts : PaperTrade(s, c)
    \/ \E t \in {"T1"}, s \in Sides, q \in {3, 10}, b \in {5, 50} :
          /\ \E i \in RowIds : /\ paper_trades[i].market_ticker = t
                               /\ paper_trades[i].side = s
                               /\ paper_trades[i].settled = 0
          /\ ClosePaperPosition(t, s, q, b)
    \/ \E trade_id \in 1..MaxCalls, won \in BOOLEAN : SettlePaperTrade(trade_id, won)
    \/ Tick

SpecLedger == InitPaper /\ [][NextLedger]_vars

\* The rows the last call wrote: they carry its stamp
WrittenByLast(table, field) ==
    {i \in 1..Len(table) : table[i][field].n = seq - 1}

\* The balance the last call found
BalanceBefore ==
    LET older == {i \in 1..Len(paper_balance) : paper_balance[i].updated_at.n < seq - 1}
    IN  paper_balance[CHOOSE i \in older : \A j \in older : j <= i].balance_cents

\* C22: from the initial balance of 10,000 cents, after any sequence of
\* paper_trade, close_paper_position and settlement calls the paper balance
\* (the latest ledger row) is never negative; a paper_trade whose cost
\* exceeds the balance or the position limit is rejected and leaves the trade
\* table and the ledger as they were.
C22_LedgerNonNegative ==
    /\ get_paper_balance >= 0
    /\ \A i \in 1..Len(paper_balance) : paper_balance[i].balance_cents >= 0
    /\ last.op = "paper_trade" =>
          LET cost == last.signal.suggested_price * last.contracts
              over == \/ cost > BalanceBefore
                      \/ cost > IntDiv(BalanceBefore * max_position_pct, 100)
          IN  over => /\ last.gate # "ok"
                      /\ WrittenByLast(paper_trades, "created_at") = {}
                      /\ WrittenByLast(paper_balance, "updated_at") = {}

\* A trade above the position limit has been rejected after an accepted
\* trade; a trade above the balance has been rejected.
C22_Witness ==
    /\ last.op = "paper_trade"
    /\ last.gate = "paper_max_position"
    /\ last.signal.suggested_price * last.contracts > BalanceBefore
    /\ Len(paper_balance) >= 2
    /\ Len(paper_trades) >= 1

\* Contracts of the unsettled rows of one ticker and side
RECURSIVE UnsettledFrom(_, _, _)
UnsettledFrom(i, t, side) ==
    IF i > Len(paper_trades) THEN 0
    ELSE (IF /\ paper_trades[i].market_ticker = t
             /\ paper_trades[i].side = side
             /\ paper_trades[i].settled = 0
          THEN paper_trades[i].contracts ELSE 0) + UnsettledFrom(i + 1, t, side)

\* C23: for every position get_paper_positions returns, also on a ticker
\* that holds unsettled YES and NO rows at once: position = YES contracts -
\* NO contracts; position < 0 gives 0 <= market_exposure <= |position| * 100;
\* position > 0 gives market_exposure <= position * 100.
C23_PositionBounds ==
    \A t \in Tickers :
        LET pos == get_paper_positions[t] IN
        pos.listed =>
            /\ pos.position = UnsettledFrom(1, t, "yes") - UnsettledFrom(1, t, "no")
            /\ pos.position < 0 => /\ 0 <= pos.market_exposure
                                   /\ pos.market_exposure <= -pos.position * 100
            /\ pos.position > 0 => pos.market_exposure <= pos.position * 100

----------------------------------------------------------------------------
(* close_paper_position as a step from one table to the next *)

\* Sum of f over the rows of `rows` that satisfy keep
SumRows(rows, keep(_), f(_)) ==
    SumSeq([i \in 1..Len(rows) |-> IF keep(rows[i]) THEN f(rows[i]) ELSE 0])

Contracts(r) == r.contracts
EntryCost(r) == r.price_cents * r.contracts
Pnl(r) == r.pnl_cents

\* The step is a call close_paper_position(ticker, side, q, price) that
\* found at least q unsettled contracts on (ticker, side)
CloseStep ==
    /\ seq' = seq + 1
    /\ last'.op = "close_paper_position"
    /\ SumRows(paper_trades,
               LAMBDA r : r.market_ticker = last'.ticker /\ r.side = last'.side
                          /\ r.settled = 0,
               Contracts) >= last'.qty

\* What the claim says of such a step
CloseStepFifo ==
    LET c == last'
        mine(r) == r.market_ticker = c.ticker /\ r.side = c.side
        open(r) == mine(r) /\ r.settled = 0
        closed(r) == mine(r) /\ r.settled = 1 /\ r.settled_at = c.at
        n0 == Len(paper_trades)
        touched(i) == paper_trades'[i] # paper_trades[i]
    IN  \* exactly N - q contracts stay unsettled
        /\ SumRows(paper_trades', open, Contracts)
              = SumRows(paper_trades, open, Contracts) - c.qty
        \* no contract appears or disappears
        /\ SumRows(paper_trades', mine, Contracts) = SumRows(paper_trades, mine, Contracts)
        \* the profit written is the credit minus the entry cost of the q contracts
        /\ SumRows(paper_trades', closed, Contracts) = c.qty
        /\ SumRows(paper_trades', closed, Pnl)
              = (IF c.side = "no" THEN c.qty * (100 - c.price) ELSE c.qty * c.price)
                - SumRows(paper_trades', closed, EntryCost)
        \* ascending id order: a row is touched only when every older open
        \* row of the position is settled whole
        /\ \A i \in 1..n0, j \in 1..n0 :
              (i < j /\ open(paper_trades[i]) /\ open(paper_trades[j]) /\ touched(j))
                 => /\ closed(paper_trades'[i])
                    /\ paper_trades'[i].contracts = paper_trades[i].contracts
        \* a row consumed in part stays unsettled with the remainder, and a
        \* new settled row holds the closed part
        /\ \A i \in 1..n0 :
              (touched(i) /\ paper_trades'[i].settled = 0) =>
                 /\ paper_trades'[i].contracts < paper_trades[i].contracts
                 /\ paper_trades'[i].contracts > 0
                 /\ \E k \in (n0 + 1)..Len(paper_trades') :
                       /\ closed(paper_trades'[k])
                       /\ paper_trades'[k].price_cents = paper_trades[i].price_cents
                       /\ paper_trades'[k].contracts
                             = paper_trades[i].contracts - paper_trades'[i].contracts
        /\ Len(paper_trades') <= n0 + 1
        \* rows of other positions are not touched
        /\ \A i \in 1..n0 : touched(i) => open(paper_trades[i])

\* C24: close_paper_position(ticker, side, q) with N >= q unsettled
\* contracts on (ticker, side) settles rows in ascending id order; a row
\* consumed in part is split into a settled row with the closed contracts and
\* the original row, unsettled, with the remainder; afterwards N - q
\* contracts are unsettled, the number of contracts over all rows is
\* unchanged, and the pnl_cents of the rows settled by the call sum to the
\* credit minus the entry cost of the q closed contracts.
C24_FifoClose == [][CloseStep => CloseStepFifo]_vars

\* A close has settled one row whole and split the next one.
C24_Witness ==
    /\ last.op = "close_paper_position"
    /\ \E i, j, k \in RowIds :
          /\ i < j /\ j < k
          /\ paper_trades[i].settled = 1 /\ paper_trades[i].settled_at = last.at
          /\ paper_trades[j].settled = 0
          /\ paper_trades[j].market_ticker = last.ticker
          /\ paper_trades[j].side = last.side
          /\ paper_trades[k].settled = 1 /\ paper_trades[k].settled_at = last.at

----------------------------------------------------------------------------
(* The dates that key a day.  A date is a number of days since day 0; the  *)
(* strftime formats are one-to-one on dates.                               *)

\* generate_lockin_signals: date_str of today's event tickers
lockin_date_str == DateUTC(now_utc)
\* generate_signals: date_strs, today's and tomorrow's event tickers
model_date_strs == <<DateUTC(now_utc), DateUTC(now_utc + 24)>>
\* run_cycle: tomorrow_str of the window filter
tomorrow_str == DateUTC(now_utc + 24)
\* _get_todays_wins: date.today() on a host that keeps UTC
wins_today == DateUTC(now_utc)

\* One of the four places computes its dates from the clock
DayKey(place) ==
    /\ last' = [op |-> "day_key", place |-> place,
                today |-> CASE place = "lockin" -> lockin_date_str
                            [] place = "model" -> model_date_strs[1]
                            [] place = "filter" -> tomorrow_str - 1
                            [] place = "wins" -> wins_today,
                tomorrow |-> CASE place = "model" -> model_date_strs[2]
                               [] place = "filter" -> tomorrow_str
                               [] OTHER -> get_today_date_et + 1]
    /\ UNCHANGED <<botVars, paperVars, exchVars, journal, now_utc, seq, cycle,
                   profit_rule_triggered, weatherVars, procVars>>

DayPlaces == {"lockin", "model", "filter", "wins"}

InitDates ==
    /\ paper_mode = TRUE
    /\ config = [attr |-> FALSE, kill_switch |-> FALSE]
    /\ triggered = FALSE
    /\ paper_trades = <<>>
    /\ paper_balance = <<>>
    /\ cash = 0
    /\ positions = NoPositions
    /\ orders = <<>>
    /\ journal = <<>>
    /\ now_utc \in 0..MaxHour
    /\ seq = 0
    /\ last = NoCall
    /\ cycle = NoCycle
    /\ profit_rule_triggered = FALSE
    /\ extremes = NoExtremes
    /\ temp_state = NoState
    /\ updaters = NoUpdaters
    /\ writers = NoWriters
    /\ monitor = NoMonitor

NextDates == \E place \in DayPlaces : DayKey(place)

SpecDates == InitDates /\ [][NextDates]_vars

\* C25: every date that keys a day is the ET (UTC-5) date: the event-ticker
\* dates of today's and tomorrow's markets in the lock-in and model paths,
\* the tomorrow test of the window filter and the day of the win count agree
\* with the ET date that keys running extremes and daily trade counts, at
\* every hour, 19:00-23:59 ET included.
C25_EtDayKeys ==
    last.op = "day_key" =>
        /\ last.today = get_today_date_et
        /\ last.tomorrow = get_today_date_et + 1

----------------------------------------------------------------------------
(* _liquidate_winning_positions: one close per profitable position.        *)

\* NO: 0 < no_ask < market_exposure / |qty|; YES: yes_bid > market_exposure / qty
Profitable(pos, mkt) ==
    /\ mkt # Failure
    /\ \/ pos.position < 0 /\ 0 < mkt.no_ask
                           /\ mkt.no_ask * Abs(pos.position) < pos.market_exposure
       \/ pos.position > 0 /\ mkt.yes_bid * pos.position > pos.market_exposure

OrdersOn(t) ==
    LET on(o) == o.ticker = t IN SelectSeq(last.issued, on)

ExpectedWinningOrders(t) ==
    LET pos == last.positions[t]
        mkt == last.mkts[t]
    IN  IF ~Profitable(pos, mkt) THEN <<>>
        ELSE IF pos.position < 0
        THEN <<CloseOrder(t, "no", Abs(pos.position), mkt.no_ask)>>
        ELSE <<CloseOrder(t, "yes", pos.position, mkt.yes_bid)>>

----------------------------------------------------------------------------
(* The profit rule's unlock across days: run_continuous keeps one bot.     *)

MaxRiskCalls == 3   \* calls of check_80pct_rule and check_risk_limits in one run

\* One call of check_risk_limits, every query answered.
CheckRiskLimits(signal, mkts) ==
    /\ seq < MaxRiskCalls
    /\ seq' = seq + 1
    /\ last' = [op |-> "check_risk_limits", signal |-> signal,
                result |-> check_risk_limits(signal, ApiOk, mkts),
                today |-> DateET(now_utc),
                base_max |-> BaseMax(ApiOk), effective_max |-> RuleMax(ApiOk),
                rule_day |-> RuleDay, at |-> Stamp]
    /\ UNCHANGED <<botVars, paperVars, exchVars, journal, now_utc, cycle,
                   profit_rule_triggered, weatherVars, procVars>>

NextUnlock ==
    \/ \E query_ok \in BOOLEAN, mkts \in RuleMarkets :
          /\ query_ok \/ mkts = CHOOSE m \in RuleMarkets : TRUE
          /\ Check80pctRule(query_ok, mkts)
    \/ \E signal \in CapSignals : CheckRiskLimits(signal, PlainCall.mkts)
    \/ NextDay

SpecUnlock == InitRule /\ [][NextUnlock]_vars

\* C27: the +10 unlock is confined to the ET day on which the profit rule
\* triggered: on a later day on which the rule has not triggered,
\* check_risk_limits uses the base cap again.
C27_UnlockOneDay ==
    (/\ last.op = "check_risk_limits"
     /\ last.rule_day # <<>>
     /\ last.rule_day[1] < last.today)
    => last.effective_max = last.base_max

----------------------------------------------------------------------------
(* check_take_profits: which positions it closes, and at what price.       *)

TakeProfitCase == last.op = "check_take_profits" /\ last.positions_ok

HeldOn(t) ==
    last.positions[t].position # 0 /\ (paper_mode => last.positions[t].listed)

\* The bid on the side the position holds
HeldBid(pos, mkt) == IF pos.position < 0 THEN mkt.no_bid ELSE mkt.yes_bid

HeldSide(pos) == IF pos.position < 0 THEN "no" ELSE "yes"

\* gain% = (current value - cost basis) / cost basis * 100 >= take_profit_pct
\* on an active market with a bid on the held side
TakeProfitDue(t) ==
    LET pos == last.positions[t]
        mkt == last.mkts[t]
    IN  /\ HeldOn(t)
        /\ mkt # Failure
        /\ mkt.status = "active"
        /\ pos.market_exposure > 0
        /\ (CurrentValue(pos, mkt) - pos.market_exposure) * 100
              >= take_profit_pct * pos.market_exposure
        /\ HeldBid(pos, mkt) > 0

\* The rows of ticker t the last call settled
SettledByLast(t) ==
    {i \in RowIds : /\ paper_trades[i].market_ticker = t
                    /\ paper_trades[i].settled = 1
                    /\ paper_trades[i].settled_at = last.at}

RowPnl == [i \in RowIds |-> paper_trades[i].pnl_cents]

\* The position of t has been closed by a sell of |qty| at price: live, the
\* one order; paper, the rows settled with |qty| * price as their proceeds.
ClosedAt(t, price) ==
    LET pos == last.positions[t] IN
    IF paper_mode
    THEN /\ ~get_paper_positions[t].listed
         /\ SumOver(RowPnl, SettledByLast(t))
              = Abs(pos.position) * price - pos.market_exposure
    ELSE OrdersOn(t) = <<CloseOrder(t, HeldSide(pos), Abs(pos.position), price)>>

Untouched(t) ==
    IF paper_mode
    THEN SettledByLast(t) = {} /\ (HeldOn(t) => get_paper_positions[t] = last.positions[t])
    ELSE OrdersOn(t) = <<>>

TakeProfitPrice(pos, mkt) ==
    IF paper_mode /\ pos.position < 0 THEN 100 - mkt.yes_bid ELSE HeldBid(pos, mkt)

----------------------------------------------------------------------------
(* WeatherBot.sync_settlements: the journal against the exchange.          *)

MaxSyncs == 2       \* calls of sync_settlements in one run

\* GET /markets/{ticker}: the fields sync_settlements reads.
MarketResult(status, result) == [ok |-> TRUE, status |-> status, result |-> result]

\* status in ("settled", "finalized") and result_str
IsFinal(mkt) ==
    /\ mkt # Failure
    /\ mkt.status \in {"settled", "finalized"}
    /\ mkt.result # ""

\* The test of the status alone.
SyncRow_AnyResult(row, mkt) ==
    IF row.settled # 0 \/ mkt = Failure
       \/ mkt.status \notin {"settled", "finalized"} THEN row
    ELSE LET won == mkt.result = row.side
         IN [row EXCEPT !.settled = 1,
                        !.settlement_result = IF won THEN "win" ELSE "loss",
                        !.pnl_cents = IF won THEN (100 - row.entry_price_cents) * row.contracts
                                      ELSE (-row.entry_price_cents) * row.contracts,
                        !.settled_at = Stamp]

\* One turn of the loop: the row after it.
SyncRow(row, mkt) ==
    IF row.settled # 0 \/ ~IsFinal(mkt) THEN row
    ELSE LET won == mkt.result = row.side
         IN [row EXCEPT !.settled = 1,
                        !.settlement_result = IF won THEN "win" ELSE "loss",
                        !.pnl_cents = IF won THEN (100 - row.entry_price_cents) * row.contracts
                                      ELSE (-row.entry_price_cents) * row.contracts,
                        !.settled_at = Stamp]

\* positions_ok: GET /portfolio/positions answers; if it raises, the sync
\* ends in its outer handler before the loop.
SyncSettlements(positions_ok, mkts) ==
    /\ seq < MaxSyncs
    /\ seq' = seq + 1
    /\ journal' = IF positions_ok
                  THEN [i \in 1..Len(journal) |-> SyncRow(journal[i], mkts[journal[i].ticker])]
                  ELSE journal
    /\ last' = [op |-> "sync_settlements", before |-> journal, mkts |-> mkts,
                positions_ok |-> positions_ok, at |-> Stamp]
    /\ UNCHANGED <<botVars, paperVars, exchVars, now_utc, cycle,
                   profit_rule_triggered, weatherVars, procVars>>

SettleQuotes ==
    {MarketResult("active", ""), MarketResult("settled", "yes"),
     MarketResult("finalized", "no"), MarketResult("settled", ""),
     MarketResult("closed", "yes"), Failure}

SettleMarkets == [Tickers -> SettleQuotes]

TradeRow(ticker, side, price, contracts) ==
    [ticker |-> ticker, side |-> side, contracts |-> contracts,
     entry_price_cents |-> price, signal_source |-> "model",
     created_at |-> [h |-> 0, n |-> -1],
     settled |-> 0, settlement_result |-> None, pnl_cents |-> 0,
     settled_at |-> NoStamp]

\* Journals of a live bot: trades of earlier cycles.
Journals ==
    {<<TradeRow("T1", "no", 60, 10), TradeRow("T2", "no", 60, 10)>>,
     <<TradeRow("T1", "yes", 30, 5), TradeRow("T1", "no", 45, 4),
       TradeRow("T2", "yes", 20, 10)>>}

InitSettle ==
    /\ paper_mode = FALSE
    /\ config = [attr |-> FALSE, kill_switch |-> FALSE]
    /\ triggered = FALSE
    /\ paper_trades = <<>>
    /\ paper_balance = <<>>
    /\ cash = 10000
    /\ positions = NoPositions
    /\ orders = <<>>
    /\ journal \in Journals
    /\ now_utc = 12
    /\ seq = 0
    /\ last = NoCall
    /\ cycle = NoCycle
    /\ profit_rule_triggered = FALSE
    /\ extremes = NoExtremes
    /\ temp_state = NoState
    /\ updaters = NoUpdaters
    /\ writers = NoWriters
    /\ monitor = NoMonitor

NextSettle ==
    \/ \E positions_ok \in BOOLEAN, mkts \in SettleMarkets :
          SyncSettlements(positions_ok, mkts)
    \/ Tick

SpecSettle == InitSettle /\ [][NextSettle]_vars

\* C29: sync_settlements marks a journal entry settled only if its market
\* is settled or finalized with a non-empty result, and then writes
\* pnl = (100 - entry_price) * contracts if the result is the held side and
\* -entry_price * contracts otherwise; an entry of a market that is not
\* final is left as it was; a ticker whose market cannot be read does not
\* keep the entries of the other tickers from being settled; an entry
\* already settled is not changed by a later sync.
C29_SyncSettlements ==
    last.op = "sync_settlements" =>
        /\ Len(journal) = Len(last.before)
        /\ \A i \in 1..Len(journal) :
              LET b == last.before[i]
                  a == journal[i]
                  mkt == last.mkts[b.ticker]
                  final == /\ mkt # Failure
                           /\ mkt.status \in {"settled", "finalized"}
                           /\ mkt.result # ""
              IN  /\ b.settled = 1 => a = b
                  /\ (b.settled = 0 /\ ~final) => a = b
                  /\ (b.settled = 0 /\ final /\ last.positions_ok) =>
                        /\ a.settled = 1
                        /\ a.pnl_cents = IF mkt.result = b.side
                                         THEN (100 - b.entry_price_cents) * b.contracts
                                         ELSE -(b.entry_price_cents * b.contracts)
                        /\ a.ticker = b.ticker /\ a.side = b.side
                        /\ a.contracts = b.contracts
                        /\ a.entry_price_cents = b.entry_price_cents

\* A second sync: T1 cannot be read, T2 has finalized NO; the entry of T2 is
\* settled as a win of 400 cents, the entry of T1, settled as a loss by the
\* first sync, is as it was.
C29_Witness ==
    /\ last.op = "sync_settlements"
    /\ last.positions_ok
    /\ seq = 2
    /\ last.mkts["T1"] = Failure
    /\ last.mkts["T2"] = MarketResult("finalized", "no")
    /\ last.before = <<[TradeRow("T1", "no", 60, 10) EXCEPT
                          !.settled = 1, !.settlement_result = "loss",
                          !.pnl_cents = -600, !.settled_at = [h |-> 12, n |-> 0]],
                        TradeRow("T2", "no", 60, 10)>>
    /\ journal[1] = last.before[1]
    /\ journal[2].settled = 1
    /\ journal[2].pnl_cents = 400

----------------------------------------------------------------------------
(* The paper ledger written by two processes at once.  paper_trade reads   *)
(* the balance on a connection of its own before it opens the connection   *)
(* it writes on; settle_v1_paper_trades and close_paper_position read it    *)
(* after their first UPDATE, inside the write transaction.                  *)

\* paper_trade up to its last check: the balance read is now a local of p.
\* A signal that fails a check returns None.
PaperTradeRead(p, signal, contracts) ==
    /\ seq < MaxCalls
    /\ writers[p].pc = "idle"
    /\ seq' = seq + 1
    /\ writers' = [writers EXCEPT ![p] =
                     IF PaperTradeGate(signal, contracts) = "ok"
                     THEN [pc |-> "checked", signal |-> signal,
                           contracts |-> contracts, balance |-> get_paper_balance]
                     ELSE NoWrite]
    /\ last' = [op |-> "paper_trade_checks", signal |-> signal, contracts |-> contracts,
                gate |-> PaperTradeGate(signal, contracts)]
    /\ UNCHANGED <<botVars, paperVars, exchVars, journal, now_utc, cycle,
                   profit_rule_triggered, weatherVars, monitor>>

\* paper_trade from its INSERTs to the commit: new_balance = balance - cost,
\* balance being the value read before.
PaperTradeCommit(p) ==
    /\ writers[p].pc = "checked"
    /\ LET w == writers[p] IN
        /\ paper_trades' = Append(paper_trades, PaperRow(w.signal, w.contracts))
        /\ paper_balance' = Append(paper_balance,
                                [balance_cents |-> w.balance
                                                    - w.signal.suggested_price * w.contracts,
                                 updated_at |-> Stamp])
        /\ last' = [op |-> "paper_trade", signal |-> w.signal,
                    contracts |-> w.contracts, gate |-> "ok"]
    /\ writers' = [writers EXCEPT ![p] = NoWrite]
    /\ UNCHANGED <<botVars, exchVars, journal, now_utc, seq, cycle,
                   profit_rule_triggered, weatherVars, monitor>>

\* settle_v1_paper_trades on the rows i.. of a ticker whose market has
\* settled with result: each row is marked, a winner adds a balance row.
RECURSIVE SettleV1Tables(_, _, _, _)
SettleV1Tables(i, ticker, result, tables) ==
    IF i > Len(tables.trades) THEN tables
    ELSE LET r == tables.trades[i]
             won == r.side = result
             bal == tables.balance[Len(tables.balance)].balance_cents
         IN  SettleV1Tables(i + 1, ticker, result,
                IF r.market_ticker # ticker \/ r.settled # 0 THEN tables
                ELSE [trades |-> [tables.trades EXCEPT ![i] =
                                    [r EXCEPT !.settled = 1,
                                              !.settlement_result =
                                                  IF won THEN "WON" ELSE "LOST",
                                              !.pnl_cents =
                                                  IF won THEN (100 - r.price_cents) * r.contracts
                                                  ELSE -(r.price_cents * r.contracts),
                                              !.settled_at = Stamp]],
                      balance |-> IF won
                                  THEN Append(tables.balance,
                                              [balance_cents |-> bal + 100 * r.contracts,
                                               updated_at |-> Stamp])
                                  ELSE tables.balance])

SettleV1(ticker, result) ==
    /\ seq < MaxCalls
    /\ seq' = seq + 1
    /\ LET after == SettleV1Tables(1, ticker, result,
                                   [trades |-> paper_trades, balance |-> paper_balance])
       IN  /\ paper_trades' = after.trades
           /\ paper_balance' = after.balance
    /\ last' = [op |-> "settle_v1_paper_trades", ticker |-> ticker, result |-> result,
                at |-> Stamp]
    /\ UNCHANGED <<botVars, exchVars, journal, now_utc, cycle, profit_rule_triggered,
                   weatherVars, procVars>>

RaceSignals ==
    {MkSignal("T1", "high", "no", 20, 80, 30, 40, 42, FALSE, 5, "model"),
     MkSignal("T2", "high", "no", 50, 50, 30, 40, 42, FALSE, 5, "model")}

NextLedgerRace ==
    \/ \E p \in Writers, s \in RaceSignals : PaperTradeRead(p, s, 10)
    \/ \E p \in Writers : PaperTradeCommit(p)
    \/ \E t \in Tickers, result \in Sides :
          /\ \E i \in RowIds : paper_trades[i].market_ticker = t /\ paper_trades[i].settled = 0
          /\ SettleV1(t, result)
    \/ \E t \in Tickers, b \in {5, 50} :
          /\ \E i \in RowIds : paper_trades[i].market_ticker = t /\ paper_trades[i].settled = 0
          /\ ClosePaperPosition(t, "no", 10, b)

SpecLedgerRace == InitPaper /\ [][NextLedgerRace]_vars

\* 10,000 minus the cost of every open recorded plus every credit: a row
\* still open counts its cost, a settled row its pnl (credit minus cost).
LedgerShouldBe ==
    PAPER_BANKROLL_START
    + SumSeq([i \in RowIds |->
                IF paper_trades[i].settled = 0
                THEN -(paper_trades[i].price_cents * paper_trades[i].contracts)
                ELSE paper_trades[i].pnl_cents])

\* C31: writes of the paper ledger are serialized: however two writers
\* interleave, no balance update is lost; the latest paper_balance row is
\* 10,000 minus the cost of all recorded opens plus all close and
\* settlement credits.
C31_LedgerSerialized == get_paper_balance = LedgerShouldBe

----------------------------------------------------------------------------
(* PriceMonitor.run: the supervisor's loop, its sleep and its shutdown.    *)

POLL_INTERVAL == 30
IDLE_INTERVAL == 300

\* What a step of run() leaves alone besides the monitor's own state
MonitorFrame ==
    UNCHANGED <<botVars, paperVars, exchVars, journal, now_utc, seq, last, cycle,
                profit_rule_triggered, weatherVars, writers>>

\* run(): self._write_pid(), then the try of the loop
MonitorRun ==
    /\ monitor.pc = "new"
    /\ monitor' = [monitor EXCEPT !.pc = "loop", !.pid_file = TRUE]
    /\ MonitorFrame

\* while self.running: the loop goes round and run_check is called
MonitorCheckStart ==
    /\ monitor.pc = "loop"
    /\ monitor.running
    /\ seq < MaxMonitorChecks
    /\ monitor' = [monitor EXCEPT !.pc = "check",
                                  !.late_check = monitor.late_check \/ monitor.signalled]
    /\ MonitorFrame

\* run_check returns or raises an Exception; the interval is chosen
MonitorCheckEnd(positions_ok, balance_ok, mkts, current_temp, order_ok) ==
    /\ monitor.pc = "check"
    /\ seq' = seq + 1
    /\ RunCheckEffect(positions_ok, balance_ok, mkts, current_temp, order_ok)
    /\ LET open == get_open_positions(positions_ok)
           raises == open # <<>> /\ MonitorRuleFires(open, balance_ok, mkts)
       IN  monitor' = [monitor EXCEPT
                         !.pc = "sleep", !.slept = 0,
                         !.interval = IF raises THEN POLL_INTERVAL
                                      ELSE IF Len(open) > 0 THEN POLL_INTERVAL
                                      ELSE IDLE_INTERVAL]
    /\ UNCHANGED <<botVars, paperVars, cash, positions, journal, now_utc, cycle,
                   weatherVars, writers>>

\* A sleep loop that does not look at self.running.
MonitorSleep_Deaf ==
    /\ monitor.pc = "sleep"
    /\ monitor' = IF monitor.slept >= monitor.interval
                  THEN [monitor EXCEPT !.pc = "loop"]
                  ELSE [monitor EXCEPT !.slept = monitor.slept + 1]
    /\ MonitorFrame

\* for _ in range(int(interval)): if not self.running: break; time.sleep(1)
MonitorSleep ==
    /\ monitor.pc = "sleep"
    /\ monitor' = IF monitor.slept >= monitor.interval \/ ~monitor.running
                  THEN [monitor EXCEPT !.pc = "loop"]
                  ELSE [monitor EXCEPT !.slept = monitor.slept + 1]
    /\ MonitorFrame

\* The while test fails: finally, self._remove_pid()
MonitorExit ==
    /\ monitor.pc = "loop"
    /\ ~monitor.running
    /\ monitor' = [monitor EXCEPT !.pc = "exited", !.pid_file = FALSE]
    /\ MonitorFrame

\* Something the inner handler does not catch leaves the loop: finally,
\* self._remove_pid()
MonitorCrash ==
    /\ monitor.pc \in {"check", "sleep"}
    /\ monitor' = [monitor EXCEPT !.pc = "exited", !.pid_file = FALSE, !.raised = TRUE]
    /\ MonitorFrame

\* SIGTERM or SIGINT: _shutdown sets self.running = False
MonitorSignal ==
    /\ monitor.pc # "exited"
    /\ ~monitor.signalled
    /\ monitor' = [monitor EXCEPT !.running = FALSE, !.signalled = TRUE,
                                  !.sig_at = monitor.pc]
    /\ MonitorFrame

\* Polls of the supervisor: the exchange answers or not, the rule can fire
SupervisorMarkets ==
    {[t \in Tickers |-> Quote(40, 59, 61, "active")],
     [t \in Tickers |-> Quote(90, 9, 11, "active")]}

InitSupervisor ==
    /\ InitMonitor
    /\ ~config.kill_switch
    /\ now_utc = 17

MonitorStep ==
    \/ MonitorRun
    \/ MonitorCheckStart
    \/ \E positions_ok \in BOOLEAN, mkts \in SupervisorMarkets :
          MonitorCheckEnd(positions_ok, TRUE, mkts, NoReading, TRUE)
    \/ MonitorSleep
    \/ MonitorExit

NextSupervisor ==
    \/ MonitorStep
    \/ MonitorCrash
    \/ MonitorSignal

\* The process is scheduled: a step of run() that can be taken is taken.
SpecSupervisor == InitSupervisor /\ [][NextSupervisor]_vars /\ WF_vars(MonitorStep)

\* C32: after a poll during which the account holds at least one open
\* position, YES or NO, the next poll is scheduled after the 30 s active
\* interval; after a poll during which it holds none, after the 300 s idle
\* interval.
C32_PollCadence ==
    (monitor.pc = "sleep" /\ last.op = "run_check") =>
        monitor.interval = IF \E t \in Tickers : positions[t].position # 0
                           THEN POLL_INTERVAL ELSE IDLE_INTERVAL

\* C33: run writes the PID file before the first poll; after SIGTERM or
\* SIGINT the supervisor completes the check in flight, starts no new one,
\* leaves a sleep at its next look at the flag, eventually leaves its loop
\* and removes the PID file; the PID file is also removed when the loop
\* exits through an exception.
C33_Lifecycle ==
    /\ [](monitor.pc \in {"loop", "check", "sleep"} => monitor.pid_file)
    /\ [](~monitor.late_check)
    /\ [](monitor.pc = "exited" => ~monitor.pid_file)
    /\ [][(monitor.signalled /\ monitor.pc = "sleep" /\ monitor' # monitor)
            => monitor'.pc # "sleep"]_vars
    /\ (monitor.signalled ~> (monitor.pc = "exited" /\ ~monitor.pid_file))

\* The signal came during a check; the check has completed and the
\* supervisor has left without an exception, the PID file removed.
C33_Witness ==
    /\ monitor.sig_at = "check"
    /\ monitor.pc = "exited"
    /\ ~monitor.raised
    /\ ~monitor.pid_file
    /\ last.op = "run_check"
    /\ seq = 1

-----------------------------------------------------------------------------
(* weather_collector.py and metar_tracker.py: requests to the NWS API *)

MaxCollects == 1    \* runs of the collectors

\* What one urlopen does: a response, or one of the errors nws_get catches
Answers == {"ok", "fail"}

RECURSIVE nws_loop(_, _, _, _)
\* the loop of nws_get from one attempt on: data is <<n>> when the response
\* of attempt n is returned and <<>> for None
nws_loop(answers, attempt, retries, slept) ==
    IF attempt > retries
    THEN [data |-> <<>>, attempts |-> attempt, slept |-> slept, raised |-> FALSE]
    ELSE IF answers[attempt + 1] = "ok"
    THEN [data |-> <<attempt + 1>>, attempts |-> attempt + 1, slept |-> slept,
          raised |-> FALSE]
    ELSE nws_loop(answers, attempt + 1, retries,
                  IF attempt < retries THEN slept + 2 * (attempt + 1) ELSE slept)

nws_get_NoRetry(answers) == nws_loop(answers, 0, 0, 0)

\* nws_get(url, retries=1)
nws_get(answers) == nws_loop(answers, 0, 1, 0)

\* a request that was not made
NotAsked == [data |-> <<>>, attempts |-> 0, slept |-> 0, raised |-> FALSE]

CollectCities == <<"NYC", "CHI">>
CityStations ==
    [c \in {"NYC", "CHI"} |->
        IF c = "NYC" THEN <<"KNYC", "KLGA">> ELSE <<"KMDW">>]
CollectStations == {"KNYC", "KLGA", "KMDW"}
Requests == CollectStations \cup {"NYC:point", "NYC:forecast",
                                  "CHI:point", "CHI:forecast"}

\* collect_city: the primary station, every surrounding station, the
\* forecast; a station without an observation is passed over
collect_city(city, net) ==
    LET stations == CityStations[city]
        point == nws_get(net[city \o ":point"])
        forecast == IF point.data = <<>> THEN NotAsked
                    ELSE nws_get(net[city \o ":forecast"])
    IN  [calls |-> [r \in Requests |->
                      IF \E i \in 1..Len(stations) : stations[i] = r
                      THEN nws_get(net[r])
                      ELSE IF r = city \o ":point" THEN point
                      ELSE IF r = city \o ":forecast" THEN forecast
                      ELSE NotAsked],
         observations |-> {stations[i] : i \in
                             {j \in 1..Len(stations) :
                                 nws_get(net[stations[j]]).data # <<>>}},
         forecasts |-> IF forecast.data # <<>> THEN {city} ELSE {}]

\* collect_all: every city in turn
CollectAll(net) ==
    /\ seq < MaxCollects
    /\ seq' = seq + 1
    /\ LET nyc == collect_city("NYC", net)
           chi == collect_city("CHI", net)
       IN  last' = [op |-> "collect_all", net |-> net,
                    calls |-> [r \in Requests |->
                                 IF nyc.calls[r].attempts > 0 THEN nyc.calls[r]
                                 ELSE chi.calls[r]],
                    observations |-> nyc.observations \cup chi.observations,
                    forecasts |-> nyc.forecasts \cup chi.forecasts,
                    cities |-> {"NYC", "CHI"}]
    /\ UNCHANGED <<botVars, paperVars, exchVars, journal, now_utc, cycle,
                   profit_rule_triggered, weatherVars, procVars>>

SettlementStations == <<"KNYC", "KPHL">>

\* update_all_stations: update_from_metar for every settlement station; the
\* table followed is that of the first
UpdateAllStations(net, temp_f) ==
    /\ seq < MaxCollects
    /\ seq' = seq + 1
    /\ LET today_et == get_today_date_et
           row == extremes[today_et]
           calls == [r \in {SettlementStations[i] : i \in 1..Len(SettlementStations)}
                       |-> nws_get(net[r])]
           updated == {r \in DOMAIN calls : calls[r].data # <<>>}
       IN  /\ extremes' = IF SettlementStations[1] \in updated
                          THEN [extremes EXCEPT ![today_et] = UpdatedRow(row, temp_f)]
                          ELSE extremes
           /\ last' = [op |-> "update_all_stations", net |-> net, calls |-> calls,
                       updated |-> updated, success_count |-> Cardinality(updated),
                       temp_f |-> temp_f, today_et |-> today_et, before |-> row]
    /\ UNCHANGED <<botVars, paperVars, exchVars, journal, now_utc, cycle,
                   profit_rule_triggered, temp_state, updaters, procVars>>

\* What the network does to the requests of one run: two answers for each,
\* the second one used only when nws_get asks again
AnswerSeqs == {<<"ok", "fail">>, <<"fail", "ok">>, <<"fail", "fail">>}
\* the stations answer freely; the points of the two cities answer alike,
\* and so do their forecasts
CollectNets ==
    {[r \in Requests |->
         IF r \in CollectStations THEN st[r]
         ELSE IF r \in {"NYC:point", "CHI:point"} THEN fc[1] ELSE fc[2]] :
       st \in [CollectStations -> AnswerSeqs],
       fc \in [1..2 -> {<<"fail", "ok">>, <<"fail", "fail">>}]}
MetarNets == [{"KNYC", "KPHL"} -> AnswerSeqs]

NextNws ==
    \/ \E net \in CollectNets : CollectAll(net)
    \/ \E net \in MetarNets, temp_f \in MetarTemps : UpdateAllStations(net, temp_f)
    \/ Tick

SpecNws == InitExtremes /\ [][NextNws]_vars

\* The first answer of a request that is a response, 0 when there is none
\* among the first two
FirstOk(answers) ==
    IF answers[1] = "ok" THEN 1 ELSE IF answers[2] = "ok" THEN 2 ELSE 0

\* What a request made by nws_get must have come to
AskedRight(call, answers) ==
    /\ call.attempts \in 1..2
    /\ ~call.raised
    /\ IF FirstOk(answers) = 0
       THEN call.data = <<>> /\ call.attempts = 2 /\ call.slept = 2
       ELSE /\ call.data = <<FirstOk(answers)>>
            /\ call.attempts = FirstOk(answers)
            /\ call.slept = 2 * (FirstOk(answers) - 1)

-----------------------------------------------------------------------------
(* signal_generator.py: estimate_temp. Temperatures come in tenths of a
   degree and are carried in hundredths inside the estimate; confidences are
   in hundredths. An absent value (None) is <<>>, a present one <<v>>. *)

\* _get_running_extremes: the city's entry of temp_state.json as it stands
_get_running_extremes ==
    [running_high |-> IF temp_state.seen THEN <<temp_state.high>> ELSE <<>>,
     running_low |-> IF temp_state.seen THEN <<temp_state.low>> ELSE <<>>]

\* round(x, 1) of a value in hundredths, in tenths
Round1(x) ==
    LET q == x \div 10
        r == x % 10
    IN  IF r < 5 THEN q ELSE IF r > 5 THEN q + 1
        ELSE IF q % 2 = 0 THEN q ELSE q + 1

HIGH_BIASES == [c \in {"MIA", "ATL", "NYC"} |-> IF c = "NYC" THEN 300 ELSE 500]
LOW_BIASES == [c \in {"MIA", "NYC"} |-> IF c = "NYC" THEN -400 ELSE -600]

\* the high estimate (hundredths) and its confidence once a forecast high is
\* there
EstimatedHigh(city, primary, surr, forecast_high, consensus, running_high, is_tomorrow, now_et_hour) ==
    LET has_cons == is_tomorrow /\ consensus # <<>> /\ consensus[1].high # 0
        e0 == IF has_cons THEN 10 * consensus[1].high ELSE 10 * forecast_high
        c0 == IF is_tomorrow
              THEN (IF consensus = <<>> THEN 40
                    ELSE IF consensus[1].high_confidence = "high" THEN 50 ELSE 40)
              ELSE 50
        rh == IF running_high = <<>> THEN 0 ELSE 10 * running_high[1]
        floor_hit == running_high # <<>> /\ rh > e0
        e1 == IF floor_hit THEN rh ELSE e0
        c1 == IF floor_hit THEN c0 + 15 ELSE c0
        e2 == IF running_high # <<>> THEN Max(e1, rh + 100) ELSE e1
        near == 10 * primary > e2 - 200
        e3 == IF near THEN e2 + ((10 * primary - e2 + 200) * 7) \div 10 ELSE e2
        c3 == IF near THEN c1 + 10 ELSE c1
        warm == 10 * surr > 10 * primary + 150
        e4 == IF warm THEN e3 + (10 * surr - 10 * primary) \div 2 ELSE e3
        c4 == IF warm THEN c3 + 5 ELSE c3
        cool == 10 * surr < 10 * primary - 150
        e5 == IF cool THEN e4 - ((10 * primary - 10 * surr) * 3) \div 10 ELSE e4
        c5 == IF cool THEN c4 + 5 ELSE c4
        today_e == IF is_tomorrow THEN e0 ELSE e5
        today_c == IF is_tomorrow THEN c0 ELSE c5
        biased == IF city \in DOMAIN HIGH_BIASES THEN today_e + HIGH_BIASES[city]
                  ELSE today_e
        timed == IF is_tomorrow THEN today_c
                 ELSE IF 12 <= now_et_hour /\ now_et_hour <= 16 THEN today_c + 20
                 ELSE IF 10 <= now_et_hour /\ now_et_hour <= 18 THEN today_c + 10
                 ELSE today_c
    IN  [estimate |-> biased, confidence |-> timed]

\* the low estimate (hundredths) and its confidence once a forecast low is
\* there
EstimatedLow(city, primary, forecast_low, consensus, running_low, is_tomorrow, now_et_hour, clear_calm, cloudy_windy) ==
    LET has_cons == is_tomorrow /\ consensus # <<>> /\ consensus[1].low # 0
        e0 == IF has_cons THEN 10 * consensus[1].low ELSE 10 * forecast_low
        rl == IF running_low = <<>> THEN 0 ELSE 10 * running_low[1]
        night == 20 <= now_et_hour \/ now_et_hour <= 4
        e1 == IF clear_calm THEN e0 - 150 ELSE e0
        e2 == IF cloudy_windy THEN e1 + 150 ELSE e1
        r == IF is_tomorrow
             THEN [e |-> e0,
                   c |-> IF consensus = <<>> THEN 40
                         ELSE IF consensus[1].low_confidence = "high" THEN 50 ELSE 40]
             ELSE IF running_low # <<>>
             THEN [e |-> Min(IF rl < e0 THEN rl ELSE e0, rl - 100),
                   c |-> IF rl < e0 THEN 65 ELSE 50]
             ELSE [e |-> IF night THEN Min(10 * primary, e2) ELSE e2,
                   c |-> 50 + (IF clear_calm THEN 10 ELSE 0)
                            + (IF cloudy_windy THEN 10 ELSE 0)
                            + (IF night THEN 15 ELSE 0)]
    IN  [estimate |-> IF city \in DOMAIN LOW_BIASES THEN r.e + LOW_BIASES[city]
                      ELSE r.e,
         confidence |-> r.c]

\* estimate_temp: <<>> for None, else the estimate; primary_temp is <<>>
\* when there is no observation of the primary station or it has no
\* temperature
estimate_temp(city, primary_temp, surr_avg, forecast_high, forecast_low, consensus, is_tomorrow, clear_calm, cloudy_windy) ==
    LET running == _get_running_extremes
        now_et_hour == ((now_utc % 24) - 5) % 24
    IN  IF primary_temp = <<>> THEN <<>>
        ELSE
        LET high == IF forecast_high = <<>>
                    THEN [estimate |-> 0, confidence |-> 50]
                    ELSE EstimatedHigh(city, primary_temp[1], surr_avg,
                                       forecast_high[1], consensus,
                                       running.running_high, is_tomorrow,
                                       now_et_hour)
            low == IF forecast_low = <<>>
                   THEN [estimate |-> 0, confidence |-> 50]
                   ELSE EstimatedLow(city, primary_temp[1], forecast_low[1],
                                     consensus, running.running_low, is_tomorrow,
                                     now_et_hour, clear_calm, cloudy_windy)
        IN  <<[city |-> city,
               primary_temp |-> primary_temp[1],
               forecast_high |-> forecast_high,
               forecast_low |-> forecast_low,
               estimated_high |-> IF forecast_high = <<>> \/ high.estimate = 0
                                  THEN <<>> ELSE <<Round1(high.estimate)>>,
               estimated_low |-> IF forecast_low = <<>> \/ low.estimate = 0
                                 THEN <<>> ELSE <<Round1(low.estimate)>>,
               high_confidence |-> Min(high.confidence, 95),
               low_confidence |-> Min(low.confidence, 95),
               running_high |-> running.running_high,
               running_low |-> running.running_low]>>

\* One call of estimate_temp
EstimateTemp(city, primary_temp, surr_avg, forecast_high, forecast_low, consensus, is_tomorrow, clear_calm, cloudy_windy) ==
    /\ seq < MaxUpdates
    /\ seq' = seq + 1
    /\ last' = [op |-> "estimate_temp", city |-> city,
                primary_temp |-> primary_temp, forecast_high |-> forecast_high,
                forecast_low |-> forecast_low, is_tomorrow |-> is_tomorrow,
                today_et |-> get_today_date_et, state_date |-> temp_state.date,
                state_seen |-> temp_state.seen,
                result |-> estimate_temp(city, primary_temp, surr_avg,
                                         forecast_high, forecast_low, consensus,
                                         is_tomorrow, clear_calm, cloudy_windy)]
    /\ UNCHANGED <<botVars, paperVars, exchVars, journal, now_utc, cycle,
                   profit_rule_triggered, weatherVars, procVars>>

EstimateSky == {<<FALSE, FALSE>>, <<TRUE, FALSE>>, <<FALSE, TRUE>>}
Consensuses ==
    {<<>>, <<[high |-> 390, low |-> 310, high_confidence |-> "high",
             low_confidence |-> "medium"]>>}

NextEstimate ==
    \/ \E temp_ok \in BOOLEAN, temp_f \in MetarTemps : PollAll(temp_ok, temp_f)
    \/ \E city \in {"NYC", "CHI"}, primary_temp \in {<<>>, <<355>>},
          surr_avg \in {355, 380}, forecast_high \in {<<>>, <<400>>},
          forecast_low \in {<<>>, <<300>>}, consensus \in Consensuses,
          is_tomorrow \in BOOLEAN, sky \in EstimateSky :
            EstimateTemp(city, primary_temp, surr_avg, forecast_high,
                         forecast_low, consensus, is_tomorrow, sky[1], sky[2])
    \/ Tick

SpecEstimate == InitExtremes /\ [][NextEstimate]_vars

\* C35: estimate_temp returns None when the primary station temperature is
\* missing; when the forecast for the target is missing but a running
\* extreme for today is available, the high (resp. low) estimate returned is
\* not None.
C35_MissingInputs ==
    last.op = "estimate_temp" =>
        /\ (last.primary_temp = <<>> => last.result = <<>>)
        /\ (last.primary_temp # <<>> /\ ~last.is_tomorrow /\ last.state_seen
              /\ last.state_date = last.today_et =>
                /\ last.result # <<>>
                /\ (last.forecast_high = <<>> =>
                      last.result[1].estimated_high # <<>>)
                /\ (last.forecast_low = <<>> =>
                      last.result[1].estimated_low # <<>>))

\* C38: the running high and low the estimator reads from the tracker state
\* belong to the current ET day.
C38_RunningIsToday ==
    (last.op = "estimate_temp" /\ last.result # <<>>
       /\ last.result[1].running_high # <<>>) =>
        last.state_date = last.today_et

-----------------------------------------------------------------------------
(* bot.py: calculate_position_size against the bankroll *)

MaxSizes == 2       \* calls of the sizer in one run

\* Balances an account can have come to, in cents
SizeBalances == {0, 600, 3000, PAPER_BANKROLL_START}

InitSize ==
    /\ paper_mode \in BOOLEAN
    /\ config = [attr |-> TRUE, kill_switch |-> FALSE]
    /\ triggered = FALSE
    /\ paper_trades = <<>>
    /\ \E b \in SizeBalances :
          /\ paper_balance = <<[balance_cents |-> IF paper_mode THEN b
                                                  ELSE PAPER_BANKROLL_START,
                                updated_at |-> [h |-> 12, n |-> -1]]>>
          /\ cash = IF paper_mode THEN 0 ELSE b
    /\ positions = NoPositions
    /\ orders = <<>>
    /\ journal = <<>>
    /\ now_utc = 12
    /\ seq = 0
    /\ last = NoCall
    /\ cycle = NoCycle
    /\ profit_rule_triggered = FALSE
    /\ extremes = NoExtremes
    /\ temp_state = NoState
    /\ updaters = NoUpdaters
    /\ writers = NoWriters
    /\ monitor = NoMonitor

\* One call of calculate_position_size
SizeCall(signal, api, jitter) ==
    /\ seq < MaxSizes
    /\ seq' = seq + 1
    /\ last' = [op |-> "calculate_position_size", signal |-> signal,
                jitter |-> jitter,
                balance |-> IF paper_mode THEN get_paper_balance ELSE cash,
                balance_ok |-> paper_mode \/ api.size,
                size |-> calculate_position_size(signal, api, jitter)]
    /\ UNCHANGED <<botVars, paperVars, exchVars, journal, now_utc, cycle,
                   profit_rule_triggered, weatherVars, procVars>>

SizeSignals ==
    {MkSignal("T1", "high", side, price, price, 30, 40, 42, FALSE, 5, "model") :
        side \in Sides, price \in {0, 1, 20, 50, 60, 90}}

NextSize ==
    \/ \E signal \in SizeSignals, size_ok \in BOOLEAN, jitter \in {-1, 0, 1} :
          SizeCall(signal, [ApiOk EXCEPT !.size = size_ok], jitter)
    \/ Tick

SpecSize == InitSize /\ [][NextSize]_vars

\* C36: the size calculate_position_size returns is never negative, is 0
\* when the price is not positive, and never exceeds
\* floor(floor(balance * max_position_pct / 100) / price); in paper mode a
\* size above 0 is not rejected by the max-position check of paper_trade.
C36_SizeWithinBankroll ==
    last.op = "calculate_position_size" =>
        LET price == last.signal.suggested_price
        IN  /\ last.size >= 0
            /\ (price <= 0 => last.size = 0)
            /\ (price > 0 =>
                  last.size <= IntDiv(last.balance * max_position_pct, 100) \div price)
            /\ (paper_mode /\ last.size > 0 =>
                  PaperTradeGate(last.signal, last.size) # "paper_max_position")

-----------------------------------------------------------------------------
(* bot.py: the three close paths of one live cycle *)

\* A live bot that holds positions when run_cycle is entered
InitHeld ==
    /\ paper_mode = FALSE
    /\ config = [attr |-> TRUE, kill_switch |-> FALSE]
    /\ triggered = FALSE
    /\ paper_trades = <<>>
    /\ paper_balance = <<[balance_cents |-> PAPER_BANKROLL_START,
                          updated_at |-> [h |-> 12, n |-> -1]]>>
    /\ \E a \in RuleAccounts :
          /\ cash = a.cash
          /\ positions = [t \in Tickers |-> IF t = "T1" THEN a.T1 ELSE a.T2]
    /\ orders = <<>>
    /\ journal = <<>>
    /\ now_utc \in CycleHours
    /\ seq = 0
    /\ last = NoCall
    /\ cycle = NoCycle
    /\ profit_rule_triggered = FALSE
    /\ extremes = NoExtremes
    /\ temp_state = NoState
    /\ updaters = NoUpdaters
    /\ writers = NoWriters
    /\ monitor = NoMonitor

\* The cycle is run with the quotes the close paths meet
NextHeld ==
    \/ \E m \in RuleMarkets, f \in {"none", "rule", "take_profit", "cut"} :
          CycleStart(f, m, PlainCycle.offer.lockin, PlainCycle.offer.model)
    \/ CycleSync
    \/ CycleLog
    \/ CycleRule
    \/ CycleTakeProfits
    \/ CycleCutLosers
    \/ CycleCollect
    \/ CycleMetar
    \/ CycleWindow
    \/ CycleSignals
    \/ CycleLoop
    \/ \E i \in 1..Len(orders) : ExchangeFill(i)

SpecHeld == InitHeld /\ [][NextHeld]_vars

\* The close orders of the cycle on one ticker
ClosesOn(t) ==
    {i \in 1..Len(orders) : orders[i].ticker = t /\ orders[i].action = "sell"}

\* C37: within one live cycle at most one close order is submitted for a
\* position; a position the profit rule has just issued a close for, still
\* reported open, is not sold again by the take-profit sweep or the
\* cut-losers sweep of the same cycle.
C37_OneClosePerCycle ==
    \A t \in Tickers : Cardinality(ClosesOn(t)) <= 1

-----------------------------------------------------------------------------
(* signal_generator.py: _analyze_brackets. Temperatures in tenths of a
   degree, the standard deviation and the confidence in hundredths, prices in
   cents. *)

MaxAnalyses == 1    \* calls of _analyze_brackets in one run

CITY_STD_FLOOR ==
    [c \in {"ATL", "MIA", "NYC", "DC", "BOS", "PHI"} |->
        IF c = "ATL" THEN 500 ELSE IF c = "MIA" THEN 450
        ELSE IF c \in {"NYC", "DC"} THEN 350 ELSE 250]

\* std_dev = max(city_floor, 4.0 - confidence * 2.0)
StdDev(city, confidence) ==
    Max(IF city \in DOMAIN CITY_STD_FLOOR THEN CITY_STD_FLOOR[city] ELSE 300,
        400 - 2 * confidence)

\* int(max(0.01, min(0.99, our_prob)) * 100); the value of the normal
\* distribution over the bracket comes with the market, for a standard
\* deviation of up to 3.0, of up to 3.3 and above
OurPriceCents(market, std_dev) ==
    Max(1, Min(99, IF std_dev <= 300 THEN market.prob.tight
                   ELSE IF std_dev <= 330 THEN market.prob.mid
                   ELSE market.prob.wide))

\* One market of the loop, analysed with the confidence the loop has come
\* to: the signals appended and the confidence the loop goes on with
AnalyzeMarket(market, estimate, city, market_type, estimated_temp, confidence, min_edge, is_tomorrow) ==
    LET std_dev == StdDev(city, confidence)
        our == OurPriceCents(market, std_dev)
        yes_bid == market.yes_bid
        yes_ask == IF market.yes_ask = 0 THEN 100 ELSE market.yes_ask
        bracket_low == market.floor_strike
        bracket_high == market.cap_strike
        skipped == (yes_bid = 0 /\ yes_ask = 100) \/ yes_ask < min_entry_price
        yes_signal ==
            IF our > yes_ask /\ yes_ask > 0 /\ (our - yes_ask) * 100 >= min_edge * yes_ask
            THEN <<[market_ticker |-> market.ticker, side |-> "yes",
                    suggested_price |-> yes_ask, confidence |-> confidence]>>
            ELSE <<>>
        no_side == our < yes_bid /\ yes_bid > 0
        nearest_edge == Min(Abs(estimated_temp - bracket_low),
                            Abs(estimated_temp - bracket_high))
        \* edge = (yes_bid - our_price_cents) / yes_bid * 100
        EdgeOver(pct) == (yes_bid - our) * 100 > pct * yes_bid
        running_h == estimate.running_high
        running_l == estimate.running_low
        flag1 == \/ /\ market_type = "high" /\ running_h # <<>>
                    /\ Abs(running_h[1] - bracket_low) < 20 /\ EdgeOver(50)
                 \/ /\ market_type = "low" /\ running_l # <<>>
                    /\ Abs(running_l[1] - bracket_high) < 20 /\ EdgeOver(50)
        flag2 == yes_bid >= 15 /\ EdgeOver(80) /\ ~is_tomorrow
        flag3 == \/ /\ ~is_tomorrow /\ running_h # <<>> /\ market_type = "high"
                    /\ estimate.forecast_high # <<>>
                    /\ estimate.forecast_high[1] # 0
                    /\ Abs(running_h[1] - estimate.forecast_high[1]) > 30
                 \/ /\ ~is_tomorrow /\ running_l # <<>> /\ market_type = "low"
                    /\ estimate.forecast_low # <<>>
                    /\ estimate.forecast_low[1] # 0
                    /\ Abs(running_l[1] - estimate.forecast_low[1]) > 30
        flagged == flag1 \/ flag2 \/ flag3
        has_high == running_h # <<>> /\ running_h[1] # 0 /\ market_type = "high"
        has_low == running_l # <<>> /\ running_l[1] # 0 /\ market_type = "low"
        blocked ==
            \/ /\ has_high /\ running_h[1] + 10 # 0
               /\ bracket_low <= running_h[1] + 10
               /\ running_h[1] + 10 <= bracket_high + 10
            \/ /\ has_low /\ running_l[1] - 10 # 0
               /\ bracket_low <= running_l[1] - 10
               /\ running_l[1] - 10 <= bracket_high + 10
            \/ has_high /\ running_h[1] > estimated_temp
            \/ has_low /\ running_l[1] < estimated_temp
            \/ nearest_edge < 40
        passed == flagged /\ ~blocked
        reduced == IF passed THEN Max(confidence - 15, 20) ELSE confidence
        no_signal ==
            IF (yes_bid - our) * 100 >= min_edge * yes_bid
            THEN <<[market_ticker |-> market.ticker, side |-> "no",
                    suggested_price |-> 100 - yes_bid, confidence |-> reduced]>>
            ELSE <<>>
    IN  IF skipped
        THEN [signals |-> <<>>, confidence |-> confidence, std_dev |-> 0,
              used |-> confidence, penalised |-> FALSE]
        ELSE IF ~no_side \/ nearest_edge < 30 \/ (flagged /\ blocked)
        THEN [signals |-> yes_signal, confidence |-> confidence,
              std_dev |-> std_dev, used |-> confidence, penalised |-> FALSE]
        ELSE [signals |-> yes_signal \o no_signal, confidence |-> reduced,
              std_dev |-> std_dev, used |-> confidence, penalised |-> passed]

RECURSIVE AnalyzeFrom(_, _, _, _, _, _, _, _, _)
\* the loop of _analyze_brackets from market i on: what each market was
\* analysed with and what it gave
AnalyzeFrom(markets, i, estimate, city, market_type, estimated_temp, confidence, min_edge, is_tomorrow) ==
    IF i > Len(markets) THEN <<>>
    ELSE LET r == AnalyzeMarket(markets[i], estimate, city, market_type,
                                estimated_temp, confidence, min_edge, is_tomorrow)
         IN  <<[ticker |-> markets[i].ticker, used |-> r.used,
                std_dev |-> r.std_dev, penalised |-> r.penalised,
                signals |-> r.signals]>>
             \o AnalyzeFrom(markets, i + 1, estimate, city, market_type,
                            estimated_temp, r.confidence, min_edge, is_tomorrow)

\* One call of _analyze_brackets
AnalyzeBrackets(markets, estimate, city, market_type, estimated_temp, confidence, min_edge, is_tomorrow) ==
    /\ seq < MaxAnalyses
    /\ seq' = seq + 1
    /\ last' = [op |-> "_analyze_brackets", markets |-> markets, city |-> city,
                confidence |-> confidence,
                evals |-> AnalyzeFrom(markets, 1, estimate, city, market_type,
                                      estimated_temp, confidence, min_edge,
                                      is_tomorrow)]
    /\ UNCHANGED <<botVars, paperVars, exchVars, journal, now_utc, cycle,
                   profit_rule_triggered, weatherVars, procVars>>

\* Brackets of one event: one the market overprices far from the estimate,
\* one overpriced further up, one underpriced around the estimate; each with
\* the probability of the estimate's distribution at each standard deviation
BracketMarket(ticker, floor, cap, bid, ask, p300, p330, p360) ==
    [ticker |-> ticker, floor_strike |-> floor, cap_strike |-> cap,
     yes_bid |-> bid, yes_ask |-> ask,
     prob |-> [tight |-> p300, mid |-> p330, wide |-> p360]]

BracketPool ==
    <<BracketMarket("B60", 600, 610, 20, 22, 1, 2, 3),
      BracketMarket("B80", 800, 810, 10, 12, 3, 5, 8),
      BracketMarket("B70", 700, 710, 30, 32, 40, 36, 33)>>

BracketPairs == {p \in (1..3) \X (1..3) : p[1] # p[2]}

\* The listings of the pool: any of its markets in any order
BracketListings ==
    {<<>>}
    \cup {<<BracketPool[i]>> : i \in 1..3}
    \cup {<<BracketPool[p[1]], BracketPool[p[2]]>> : p \in BracketPairs}
    \cup {<<BracketPool[p[1]], BracketPool[p[2]], BracketPool[6 - p[1] - p[2]]>> :
            p \in BracketPairs}

BracketEstimates ==
    {[running_high |-> rh, running_low |-> rl,
      forecast_high |-> <<700>>, forecast_low |-> <<600>>] :
        rh \in {<<>>, <<650>>, <<720>>}, rl \in {<<>>, <<720>>}}

NextAnalyze ==
    \/ \E markets \in BracketListings, estimate \in BracketEstimates,
          city \in {"CHI", "BOS"}, market_type \in {"high", "low"},
          confidence \in {50, 80}, is_tomorrow \in BOOLEAN :
            AnalyzeBrackets(markets, estimate, city, market_type, 700,
                            confidence, 15, is_tomorrow)
    \/ Tick

SpecAnalyze == InitExtremes /\ [][NextAnalyze]_vars

\* C39: the reduction of the confidence of a flagged NO signal that passes
\* the enhanced validation applies to that signal only; every market of the
\* same call, before or after it, is analysed with the confidence the call
\* was given and the standard deviation derived from it, and every other
\* signal carries that confidence.
C39_PenaltyIsLocal ==
    last.op = "_analyze_brackets" =>
        \A i \in 1..Len(last.evals) :
            LET e == last.evals[i]
            IN  /\ e.used = last.confidence
                /\ (e.std_dev # 0 => e.std_dev = StdDev(last.city, last.confidence))
                /\ \A k \in 1..Len(e.signals) :
                      e.signals[k].confidence =
                          IF e.penalised /\ e.signals[k].side = "no"
                          THEN Max(last.confidence - 15, 20)
                          ELSE last.confidence

-----------------------------------------------------------------------------
(* bot.py: the capital cap when the account cannot be valued *)

\* C40: a failure of the balance or positions query during the live
\* capital-cap check never lets a signal through that would have been
\* rejected had the query succeeded: check_risk_limits does not pass the
\* capital-cap step for an account whose open exposure is at or above the
\* cap.
C40_CapFailsClosed ==
    (/\ last.op = "execute_signal"
     /\ ~paper_mode
     /\ last.risk # "not_called"
     /\ ~last.risk_query_ok
     /\ last.exposure >= (last.account * 4) \div 10)
    => last.risk = "capital_cap"

====
